---- MODULE Spec2Model ----
(***************************************************************************)
(* Workout Buddy (split tracker v2): the ledger of per-day exercise logs,  *)
(* its local persistence, the debounced auto-save of each exercise card    *)
(* and the Supabase mirror (startup pull, push on change).                 *)
(*                                                                         *)
(* One React event, timer callback or promise continuation is one action.  *)
(* A state change that re-renders runs the effects whose dependencies      *)
(* changed before anything else can happen: the card effects are part of   *)
(* the action that changes the state, the two App effects (ledger, rest    *)
(* overrides) are queued in `pending` and run statement by statement, with *)
(* every other action waiting for `pending` to drain.                      *)
(***************************************************************************)
EXTENDS Integers, Sequences, FiniteSets, TLC

VARIABLES
    configured,     \* isSupabaseConfigured() && supabase
    phase,          \* "new" (state initialised, effects not run), "live", "dead" (unmounted)
    selectedDay,    \* the selected day; its exercises are the cards shown
    dateStr,        \* the selected date
    logs,           \* the in-memory ledger: sequence of ExerciseLog
    restOverrides,  \* the in-memory rest overrides: exerciseId -> seconds
    syncing,        \* the syncing flag
    syncError,      \* the error message, "" for none
    sets,           \* per exercise card: the working set
    timers,         \* per exercise card: the pending auto-save timeouts (their closures)
    autoSaveRef,    \* per exercise card: autoSaveRef.current, <<>> or <<closure>>
    lsV2,           \* localStorage wb_logs_v2: <<>> absent, <<ledger>> present
    lsRest,         \* localStorage wb_rest_overrides_v1: <<>> absent, <<map>> present
    lsClientId,     \* localStorage wb_client_id: "" absent
    remoteLogs,     \* table wb_logs, this client's rows: <<date, exerciseId>> -> sets
    remoteRest,     \* table wb_rest_overrides, this client's rows: exerciseId -> seconds
    pullPc,         \* startup pull: "none", "logsSel", "restSel", "done"
    pullRows,       \* the rows the first select returned
    cancelled,      \* the pull effect's cancelled flag
    pushLogsQ,      \* upserts in flight
    pushRestQ,      \* override pushes in flight, each in its delete or insert step
    clearQ,         \* number of Clear-All deletes in flight
    pending,        \* statements of the App effects still to run after the last render
    userOps,        \* number of user events so far
    lastOp,         \* the last step taken
    lsV1,           \* localStorage wb_logs_v1 (legacy ledger): <<>> absent
    lsApp,          \* localStorage workoutbuddy_v1 (session-scoped app): <<>> absent
    data,           \* session-scoped app: the Persisted state
    currentSessionId, \* session-scoped app: id of the current session, 0 for null
    form,           \* session-scoped app: the quick logger's form
    forms,          \* session-scoped app: the planned exercises' forms
    clock,          \* session-scoped app: Date.now()
    args,           \* the arguments of the last function call
    ret             \* what the last function call returned

vars == <<configured, phase, selectedDay, dateStr, logs, restOverrides, syncing, syncError, sets,
          timers, autoSaveRef, lsV2, lsRest, lsClientId, remoteLogs, remoteRest,
          pullPc, pullRows, cancelled, pushLogsQ, pushRestQ, clearQ, pending,
          userOps, lastOp, lsV1, lsApp, data, currentSessionId, form, forms, clock,
          args, ret>>

\* what the split tracker's component never writes: the legacy blob, the state
\* of the session-scoped app, the function calls
otherVars == <<lsV1, lsApp, data, currentSessionId, form, forms, clock, args, ret>>

\* the state of the split tracker's component, its local storage and its
\* remote tables
trackerVars == <<configured, phase, selectedDay, dateStr, logs, restOverrides, syncing,
                 syncError, sets, timers, autoSaveRef, lsV2, lsRest, lsClientId,
                 remoteLogs, remoteRest, pullPc, pullRows, cancelled, pushLogsQ,
                 pushRestQ, clearQ, pending, userOps>>

----------------------------------------------------------------------------
(* Bounds of the model *)

\* user events (edits, saves, date changes, rest edits, clear-all) in one run
MaxUserOps == 2
\* rows of a working set (Add Set stops there)
MaxSets == 1
\* remote calls of one kind in flight at once
MaxInFlight == 2

----------------------------------------------------------------------------
(* The catalogue, dates and input values *)

\* three entries of EXERCISES: one of the day shown first, two of another
\* day, one of them without a load
Exercises == {"wrist-curl", "front-squat", "banded-lateral-walk"}

DAYS == {"Push", "Legs Anterior"}

DayOf(e) == IF e = "wrist-curl" THEN "Push" ELSE "Legs Anterior"

trackWeight(e) == e # "banded-lateral-walk"

\* EXERCISES.filter((e) => e.day === selectedDay)
dayExercises(day) == {e \in Exercises : DayOf(e) = day}

\* YYYY-MM-DD strings, ordered as the integers are; todayStr() is Today
Dates == {1, 2}
Today == 2

\* Number.NaN, the value of a blanked input field
NaN == -1

\* the first row of a fresh working set has 5 reps
StarterReps == 5

\* what the user types in a reps field: nothing, a negative number, 0, 5
RepsRaw == {NaN, -2, 0, 5}
\* what the user types in a weight field, in quarters of a kilogram: 1.25 kg
WeightRaw == {5}
\* what the user types in the rest field: below the minimum, above the maximum
RestRaw == {5, 1000}

\* the record of a step: the operation, the card it belongs to, its outcome
\* and, for a returning push, whether a later effect run superseded it
OpOf(op, e, arg, age) == [op |-> op, ex |-> e, arg |-> arg, age |-> age]

Op(op, e, arg) == OpOf(op, e, arg, "")

----------------------------------------------------------------------------
(* Values *)

SetEntry(r, w) == [reps |-> r, weight |-> w]

ExerciseLog(d, e, ss) == [date |-> d, ex |-> e, sets |-> ss]

KeyOf(l) == <<l.date, l.ex>>

KeysOf(l) == {KeyOf(l[i]) : i \in 1..Len(l)}

\* at most one ExerciseLog per (date, exerciseId)
UniqueKeys(l) == \A i, j \in 1..Len(l) : KeyOf(l[i]) = KeyOf(l[j]) => i = j

\* x > c and x >= c of JavaScript: false when x is NaN
Gt(x, c) == x # NaN /\ x > c
Ge(x, c) == x # NaN /\ x >= c

\* Number(x) || 0
NumberOr0(x) == IF x = NaN THEN 0 ELSE x

\* Number.isFinite(x) ? x : 0
FiniteOr0(x) == IF x = NaN THEN 0 ELSE x

Max0(x) == IF x < 0 THEN 0 ELSE x

\* Math.round(value / 0.5) * 0.5, value in quarters of a kilogram
roundToStep(q) == 2 * ((q + 1) \div 2)

MapSets(f(_), ss) == [i \in 1..Len(ss) |-> f(ss[i])]

\* a table or record without rows: {} of JavaScript, no row of a remote table
EmptyTable == [k \in {} |-> <<>>]

----------------------------------------------------------------------------
(* Historical lookup *)

\* beforeDate not given (undefined) or empty
NoDate == 0

\* variant: the cutoff date itself is left out
lastLogFilterExclusive(x, exerciseId, beforeDate) ==
    x.ex = exerciseId /\ (beforeDate = NoDate \/ x.date < beforeDate)

\* the filter callback: l.exerciseId === exerciseId && (!beforeDate || l.date <= beforeDate)
lastLogFilter(x, exerciseId, beforeDate) ==
    x.ex = exerciseId /\ (beforeDate = NoDate \/ x.date <= beforeDate)

\* logs.filter(exerciseId, date <= beforeDate).sort(date descending)[0],
\* <<>> for undefined; of two logs of one date the later of the list
getLastLogForExercise(exerciseId, l, beforeDate) ==
    LET list == SelectSeq(l, LAMBDA x : lastLogFilter(x, exerciseId, beforeDate))
        top  == CHOOSE i \in 1..Len(list) :
                    /\ \A j \in 1..Len(list) : list[j].date <= list[i].date
                    /\ \A j \in 1..Len(list) : list[j].date = list[i].date => j <= i
    IN  IF list = <<>> THEN <<>> ELSE <<list[top]>>

\* what sort((a, b) => (a.date < b.date ? 1 : -1)) can leave: the comparator
\* answers -1 both ways for two logs of one date, so their order is the
\* engine's choice; every outcome is ordered by date, descending
SortByDateDesc(list) ==
    LET n == Len(list)
        perms == {q \in [1..n -> 1..n] : \A i, j \in 1..n : q[i] = q[j] => i = j}
    IN  {[i \in 1..n |-> list[q[i]]] : q \in
            {q \in perms : \A i, j \in 1..n : i < j => list[q[i]].date >= list[q[j]].date}}

\* the outcomes of a call of getLastLogForExercise: the value returned and
\* the caller's array after it (filter copies, sort works on the copy)
getLastLogOutcomes(exerciseId, l, beforeDate) ==
    LET list == SelectSeq(l, LAMBDA x : lastLogFilter(x, exerciseId, beforeDate))
    IN  {[val |-> IF s = <<>> THEN <<>> ELSE <<s[1]>>, logs |-> l] : s \in SortByDateDesc(list)}

\* the working set a card starts from: the last session's sets, or a starter row
initialSets(last, e) ==
    IF last # <<>> /\ Len(last[1].sets) > 0
    THEN last[1].sets
    ELSE <<SetEntry(StarterReps, 0)>>

----------------------------------------------------------------------------
(* Local storage *)

\* null of JSON
Null == -9

\* A stored item: <<>> when the key is absent, <<v>> for the JSON text of the
\* value v, Garbage for a text JSON.parse rejects.
Garbage == <<"{", "{">>

\* the outcome of a call: a value returned or an exception thrown
Return(v) == [threw |-> FALSE, val |-> v]

Throw == [threw |-> TRUE, val |-> <<>>]

\* JSON.parse of a stored text
JSONparse(raw) == IF Len(raw) = 1 THEN Return(raw[1]) ELSE Throw

\* JSON.stringify of a ledger, as the value JSON.parse reads back: a NaN is
\* written as null
JSONstringify(l) ==
    LET num(x) == IF x = NaN THEN Null ELSE x
    IN  [i \in 1..Len(l) |->
            [l[i] EXCEPT !.sets = MapSets(LAMBDA s : SetEntry(num(s.reps), num(s.weight)), @)]]

\* a log of the legacy ledger: one weight per exercise and date
LegacyLog(d, e, w) == [date |-> d, ex |-> e, weight |-> w]

\* Number(l.weight) || 0
LegacyWeight(w) == IF w = Null \/ w = NaN THEN 0 ELSE w

\* variant: the migrated set takes the starter reps
MigrateLogStarter(l) == ExerciseLog(l.date, l.ex, <<SetEntry(StarterReps, LegacyWeight(l.weight))>>)

\* v1 -> v2: one set with reps 0 and the legacy weight
MigrateLog(l) == ExerciseLog(l.date, l.ex, <<SetEntry(0, LegacyWeight(l.weight))>>)

\* variant: an exception of the body leaves the function
CatchRethrow(t, dflt) == t

\* try { body } catch { } followed by the default
Catch(t, dflt) == IF t.threw THEN [t EXCEPT !.threw = FALSE, !.val = dflt] ELSE t

\* variant: the legacy blob is migrated whenever it is there
loadLogsLegacyFirst(v2, v1) ==
    IF v1 # <<>> /\ Len(v1) = 1
    THEN LET migrated == [i \in 1..Len(v1[1]) |-> MigrateLog(v1[1][i])]
         IN  [threw |-> FALSE, val |-> migrated, v2 |-> <<JSONstringify(migrated)>>,
              reads |-> {"wb_logs_v1"}, path |-> "migrated"]
    ELSE [threw |-> FALSE, val |-> <<>>, v2 |-> v2, reads |-> {"wb_logs_v1"},
          path |-> "default"]

\* the try block of loadLogs and the return after it: the value returned or
\* the exception, the wb_logs_v2 item it leaves, the keys it read
loadLogsTry(v2, v1) ==
    IF v2 # <<>>
    THEN LET parsed == JSONparse(v2)
         IN  [threw |-> parsed.threw, val |-> parsed.val, v2 |-> v2,
              reads |-> {"wb_logs_v2"},
              path |-> IF parsed.threw THEN "default" ELSE "v2"]
    ELSE IF v1 # <<>>
    THEN LET old == JSONparse(v1)
             migrated == [i \in 1..Len(old.val) |-> MigrateLog(old.val[i])]
         IN  IF old.threw
             THEN [threw |-> TRUE, val |-> <<>>, v2 |-> v2,
                   reads |-> {"wb_logs_v2", "wb_logs_v1"}, path |-> "default"]
             ELSE [threw |-> FALSE, val |-> migrated, v2 |-> <<JSONstringify(migrated)>>,
                   reads |-> {"wb_logs_v2", "wb_logs_v1"}, path |-> "migrated"]
    ELSE [threw |-> FALSE, val |-> <<>>, v2 |-> v2,
          reads |-> {"wb_logs_v2", "wb_logs_v1"}, path |-> "default"]

\* loadLogs on the items wb_logs_v2 and wb_logs_v1
loadLogs(v2, v1) == Catch(loadLogsTry(v2, v1), <<>>)

\* the wb_logs_v2 item saveLogs writes
saveLogs(l) == <<JSONstringify(l)>>

\* loadRestOverrides on the item wb_rest_overrides_v1
loadRestOverrides(raw) ==
    Catch(IF raw # <<>> THEN JSONparse(raw) ELSE Return(EmptyTable), EmptyTable)

saveRestOverrides(o) == <<o>>

\* crypto.randomUUID()
NewClientId == "uuid-1"

\* variant: an identity is generated and stored on every call
getOrCreateClientIdFresh(id) == NewClientId

\* the stored identity, generated and stored first when there is none
getOrCreateClientId(id) == IF id = "" THEN NewClientId ELSE id

----------------------------------------------------------------------------
(* Exercise cards: the working set and the debounced auto-save *)

\* what the timeout callback closes over
Closure(ss, l, d) == [sets |-> ss, logs |-> l, date |-> d]

\* variant: the pending timeout is not cleared
clearTimeoutForgotten(ref, ts) == ts

\* window.clearTimeout(autoSaveRef.current) on the card's pending timeouts
clearTimeout(ref, ts) == IF ref = <<>> THEN ts ELSE ts \ {ref[1]}

\* the auto-save effect: clear the pending timeout, arm a new one
ArmAutoSave(ref, ts, c) == clearTimeout(ref, ts) \cup {c}

\* whether the card's `last` is another object after a render with ledger
\* newLogs and date newDate. The logs with a key in `fresh` are objects made
\* by the step; every other log is taken to be the object it was when its
\* content is the same.
LastChanged(e, newLogs, newDate, fresh) ==
    LET o == getLastLogForExercise(e, logs, dateStr)
        n == getLastLogForExercise(e, newLogs, newDate)
    IN  IF n = <<>> THEN o # <<>>
        ELSE o = <<>> \/ o # n \/ KeyOf(n[1]) \in fresh

\* The render after a step, and the card effects it runs: a card whose `last`
\* changed takes initialSets as its working set; a card whose working set or
\* date changed re-arms its timeout. `edited` maps the cards whose working
\* set the step itself replaced to the new working set; ts and refs are the
\* pending timeouts and the refs the step leaves.
Render(newLogs, newDate, fresh, edited, ts, refs) ==
    LET changed(e) == LastChanged(e, newLogs, newDate, fresh)
        ns(e) == IF e \in DOMAIN edited THEN edited[e]
                 ELSE IF changed(e)
                      THEN initialSets(getLastLogForExercise(e, newLogs, newDate), e)
                      ELSE sets[e]
        rearm(e) == e \in DOMAIN edited \/ changed(e) \/ newDate # dateStr
        c(e) == Closure(ns(e), newLogs, newDate)
    IN  /\ sets' = [e \in DOMAIN sets |-> ns(e)]
        /\ timers' = [e \in DOMAIN sets |->
                         IF rearm(e) THEN ArmAutoSave(refs[e], ts[e], c(e))
                         ELSE ts[e]]
        /\ autoSaveRef' = [e \in DOMAIN sets |->
                              IF rearm(e) THEN <<c(e)>> ELSE refs[e]]

NoEdit == [e \in {} |-> <<>>]

\* variant: the upsert is sent before the ledger is persisted
LogsEffectRemoteFirst == <<"pushLogs", "saveLogs">>

\* the effects of the ledger and of the rest overrides, statement by statement
LogsEffect == <<"saveLogs", "pushLogs">>
RestEffect == <<"saveRestOverrides", "pushRest">>

----------------------------------------------------------------------------
(* The session-scoped app (App.tsx): values and local storage.  Loads are   *)
(* in half kilograms, so that the increment of 2.5 kg is the integer 5.     *)

\* 2.5 kg
DEFAULT_INCREMENT == 5

\* an Exercise: loadFactor is <<>> when unset, <<f>> for f hundredths
Exercise(id, bw, inc, factor) ==
    [id |-> id, isBodyweight |-> bw, defaultIncrement |-> inc, loadFactor |-> factor]

\* three entries of EXERCISES: two bodyweight movements, one free weight
AppExercises ==
    {Exercise("pullup", TRUE, DEFAULT_INCREMENT, <<100>>),
     Exercise("pushup", TRUE, DEFAULT_INCREMENT, <<65>>),
     Exercise("bench", FALSE, DEFAULT_INCREMENT, <<>>)}

\* EXERCISES.find(e => e.id === id)
ExerciseOf(id) == CHOOSE e \in AppExercises : e.id = id

\* an estimated maximum is kept in thirtieths of the unit of the load
Thirtieths == 30

\* variant: one repetition already takes the formula
epleyE1RMFromOne(loadKg, reps) ==
    IF reps < 1 THEN Thirtieths * loadKg ELSE loadKg * (Thirtieths + reps)

\* epleyE1RM, in thirtieths: loadKg * (1 + reps / 30) is loadKg * (30 + reps) / 30
epleyE1RM(loadKg, reps) ==
    IF reps <= 1 THEN Thirtieths * loadKg ELSE loadKg * (Thirtieths + reps)

\* a load factor is kept in hundredths (0.65 is 65), an effective load in
\* hundredths of a kilogram
Hundredths == 100

\* variant: an assisting (negative) external load is not counted
effectiveLoadKgNoAssist(ex, bodyweightKg, externalLoadKg) ==
    LET ext == IF externalLoadKg < 0 THEN 0 ELSE externalLoadKg
    IN  IF ~ex.isBodyweight THEN Hundredths * ext
        ELSE LET factor == IF ex.loadFactor = <<>> THEN Hundredths ELSE ex.loadFactor[1]
             IN  bodyweightKg * factor + Hundredths * ext

\* effectiveLoadKg, in hundredths of a kilogram; loadFactor ?? 1.0
effectiveLoadKg(ex, bodyweightKg, externalLoadKg) ==
    IF ~ex.isBodyweight THEN Hundredths * externalLoadKg
    ELSE LET factor == IF ex.loadFactor = <<>> THEN Hundredths ELSE ex.loadFactor[1]
         IN  bodyweightKg * factor + Hundredths * externalLoadKg

\* a SetEntry of the session-scoped app; weight in half kilograms
SessionSet(id, sessionId, exerciseId, weight, reps, rir, timestamp) ==
    [id |-> id, sessionId |-> sessionId, exerciseId |-> exerciseId, weight |-> weight,
     reps |-> reps, rir |-> rir, timestamp |-> timestamp]

\* variant: two reps in reserve already count as easy
LookedEasyFromTwo(rir) == rir >= 2

\* rir >= 3
LookedEasy(rir) == rir >= 3

\* suggestNext: nextWeight is <<>> for null, <<w>> for a number; the advice
\* text is kept as its rule and the numbers it prints
suggestNext(ex, lastSets) ==
    IF Len(lastSets) = 0
    THEN [advice |-> <<"start">>, nextWeight |-> <<>>, nextReps |-> 8]
    ELSE LET recent == lastSets[Len(lastSets)]
             inc == IF ex.defaultIncrement # 0 THEN ex.defaultIncrement ELSE DEFAULT_INCREMENT
         IN  IF LookedEasy(recent.rir)
             THEN [advice |-> <<"easy", recent.rir, inc>>,
                   nextWeight |-> <<recent.weight + inc>>, nextReps |-> recent.reps]
             ELSE IF recent.rir <= 1
             THEN [advice |-> <<"limit", recent.rir>>,
                   nextWeight |-> <<recent.weight>>, nextReps |-> recent.reps + 1]
             ELSE [advice |-> <<"solid">>,
                   nextWeight |-> <<recent.weight>>, nextReps |-> recent.reps + 1]

\* the ids of DEFAULT_GOALS
DEFAULT_GOALS == <<"g_pullups", "g_squat_e1rm", "g_calf", "g_mob">>

\* the bodyweight of the seeded state, in kilograms
DefaultBodyweightKg == 75

\* what loadPersisted returns when nothing usable is stored
DefaultPersisted ==
    [sessions |-> <<>>, sets |-> <<>>, goals |-> DEFAULT_GOALS,
     bodyweightKg |-> DefaultBodyweightKg, units |-> "kg", baselineMode |-> TRUE]

\* loadPersisted on the item workoutbuddy_v1: an absent item throws "empty"
\* inside the try
loadPersisted(raw) ==
    Catch(IF raw = <<>> THEN Throw ELSE JSONparse(raw), DefaultPersisted)

savePersisted(p) == <<p>>

\* currentSessionId === null
NoSession == 0

\* the quick logger's form as useState initialises it: weight "0", reps "8",
\* rir "2"
DefaultForm == [exerciseId |-> "pullup", weight |-> 0, reps |-> 8, rir |-> 2]

\* the component of the session-scoped app as useState initialises it
SessionInit ==
    /\ data = loadPersisted(lsApp).val
    /\ currentSessionId = NoSession
    /\ form = DefaultForm
    /\ forms = EmptyTable
    /\ clock = 0

\* the session-scoped app as it starts on an empty store, the legacy blob
\* absent, no function called
OtherIdle ==
    /\ lsV1 = <<>>
    /\ lsApp = <<>>
    /\ SessionInit
    /\ args = <<>>
    /\ ret = <<>>

----------------------------------------------------------------------------
(* Initial state: the component's state as useState initialises it from    *)
(* local storage, before any effect has run                                *)

\* a device used before: one log of an earlier date and one rest override in
\* local storage and, with a remote store, a client id and rows of that client
HistoryLog == ExerciseLog(1, "wrist-curl", <<SetEntry(5, 6)>>)

HistoryRest == [e \in {"wrist-curl"} |-> 60]

HistoryRemoteLogs ==
    [k \in {<<1, "wrist-curl">>, <<2, "wrist-curl">>} |->
        IF k[1] = 1 THEN <<SetEntry(5, 0)>> ELSE <<SetEntry(5, 6)>>]

HistoryRemoteRest == [e \in {"wrist-curl", "front-squat"} |-> 90]

\* VITE_SUPABASE_URL and VITE_SUPABASE_ANON_KEY: "" when undefined or empty
EnvValues == {"", "set"}

\* Boolean(url && anon)
isSupabaseConfigured(url, anon) == url # "" /\ anon # ""

\* the exported client is not null
supabase(url, anon) == url # "" /\ anon # ""

Init ==
    /\ \E url, anon \in EnvValues :
          configured = (isSupabaseConfigured(url, anon) /\ supabase(url, anon))
    /\ phase = "new"
    /\ selectedDay = "Push"
    /\ dateStr = Today
    /\ \E used \in BOOLEAN :
          /\ lsV2 = IF used THEN saveLogs(<<HistoryLog>>) ELSE <<>>
          /\ lsRest = IF used THEN saveRestOverrides(HistoryRest) ELSE <<>>
          /\ lsClientId = IF used /\ configured THEN "uuid-0" ELSE ""
          /\ remoteLogs = IF used /\ configured THEN HistoryRemoteLogs ELSE EmptyTable
          /\ remoteRest = IF used /\ configured THEN HistoryRemoteRest ELSE EmptyTable
    /\ OtherIdle
    /\ logs = loadLogs(lsV2, lsV1).val
    /\ restOverrides = loadRestOverrides(lsRest).val
    /\ syncing = FALSE
    /\ syncError = ""
    /\ sets = [e \in dayExercises(selectedDay) |->
                 initialSets(getLastLogForExercise(e, logs, dateStr), e)]
    /\ timers = [e \in dayExercises(selectedDay) |-> {}]
    /\ autoSaveRef = [e \in dayExercises(selectedDay) |-> <<>>]
    /\ pullPc = "none"
    /\ pullRows = <<>>
    /\ cancelled = FALSE
    /\ pushLogsQ = {}
    /\ pushRestQ = {}
    /\ clearQ = 0
    /\ pending = <<>>
    /\ userOps = 0
    /\ lastOp = Op("init", "", "")

----------------------------------------------------------------------------
(* Mount: the effects of the first render *)

\* variant: the pull does not ask whether a remote store is configured
PullStartUnchecked ==
    /\ syncing' = TRUE
    /\ syncError' = ""
    /\ lsClientId' = getOrCreateClientId(lsClientId)
    /\ pullPc' = "logsSel"

\* the body of pullFromSupabase up to its first await
PullStart ==
    IF configured
    THEN /\ syncing' = TRUE
         /\ syncError' = ""
         /\ lsClientId' = getOrCreateClientId(lsClientId)
         /\ pullPc' = "logsSel"
    ELSE UNCHANGED <<syncing, syncError, lsClientId, pullPc>>

Mount ==
    /\ phase = "new"
    /\ phase' = "live"
    /\ timers' = [e \in DOMAIN sets |->
                     ArmAutoSave(autoSaveRef[e], timers[e], Closure(sets[e], logs, dateStr))]
    /\ autoSaveRef' = [e \in DOMAIN sets |-> <<Closure(sets[e], logs, dateStr)>>]
    /\ PullStart
    /\ pending' = LogsEffect \o RestEffect
    /\ lastOp' = Op("mount", "", "")
    /\ UNCHANGED <<otherVars, configured, selectedDay, dateStr, logs, restOverrides, sets, lsV2,
                   lsRest, remoteLogs, remoteRest, pullRows, cancelled, pushLogsQ,
                   pushRestQ, clearQ, userOps>>

----------------------------------------------------------------------------
(* The App effects on [logs] and on [restOverrides] *)

\* a push issued by an effect run; the runs before it are superseded
Supersede(q) == {[p EXCEPT !.stale = TRUE] : p \in q}

SaveLogsEffect ==
    /\ pending # <<>> /\ Head(pending) = "saveLogs"
    /\ lsV2' = saveLogs(logs)
    /\ pending' = Tail(pending)
    /\ lastOp' = Op("saveLogs", "", "")
    /\ UNCHANGED <<otherVars, configured, phase, selectedDay, dateStr, logs, restOverrides, syncing, syncError,
                   sets, timers, autoSaveRef, lsRest, lsClientId, remoteLogs, remoteRest,
                   pullPc, pullRows, cancelled, pushLogsQ, pushRestQ, clearQ, userOps>>

\* pushLogs up to its await: the rows of the current ledger are upserted
PushLogsEffect ==
    /\ pending # <<>> /\ Head(pending) = "pushLogs"
    /\ pending' = Tail(pending)
    /\ IF configured
       THEN /\ lsClientId' = getOrCreateClientId(lsClientId)
            /\ syncError' = ""
            /\ pushLogsQ' = Supersede(pushLogsQ) \cup
                    {[client_id |-> lsClientId', rows |-> logs, stale |-> FALSE]}
            /\ lastOp' = Op("pushLogs", "", "issued")
       ELSE /\ UNCHANGED <<lsClientId, syncError, pushLogsQ>>
            /\ lastOp' = Op("pushLogs", "", "offline")
    /\ UNCHANGED <<otherVars, configured, phase, selectedDay, dateStr, logs, restOverrides, syncing, sets,
                   timers, autoSaveRef, lsV2, lsRest, remoteLogs, remoteRest, pullPc,
                   pullRows, cancelled, pushRestQ, clearQ, userOps>>

SaveRestEffect ==
    /\ pending # <<>> /\ Head(pending) = "saveRestOverrides"
    /\ lsRest' = saveRestOverrides(restOverrides)
    /\ pending' = Tail(pending)
    /\ lastOp' = Op("saveRestOverrides", "", "")
    /\ UNCHANGED <<otherVars, configured, phase, selectedDay, dateStr, logs, restOverrides, syncing, syncError,
                   sets, timers, autoSaveRef, lsV2, lsClientId, remoteLogs, remoteRest,
                   pullPc, pullRows, cancelled, pushLogsQ, pushRestQ, clearQ, userOps>>

\* pushRest up to its first await: the delete of the client's rows is sent
PushRestEffect ==
    /\ pending # <<>> /\ Head(pending) = "pushRest"
    /\ pending' = Tail(pending)
    /\ IF configured
       THEN /\ lsClientId' = getOrCreateClientId(lsClientId)
            /\ syncError' = ""
            /\ pushRestQ' = Supersede(pushRestQ) \cup
                    {[client_id |-> lsClientId', rows |-> restOverrides, step |-> "delete",
                      deleted |-> FALSE, stale |-> FALSE]}
            /\ lastOp' = Op("pushRest", "", "issued")
       ELSE /\ UNCHANGED <<lsClientId, syncError, pushRestQ>>
            /\ lastOp' = Op("pushRest", "", "offline")
    /\ UNCHANGED <<otherVars, configured, phase, selectedDay, dateStr, logs, restOverrides, syncing, sets,
                   timers, autoSaveRef, lsV2, lsRest, remoteLogs, remoteRest, pullPc,
                   pullRows, cancelled, pushLogsQ, clearQ, userOps>>

\* no effect is left to run and the component is mounted: an event can be handled
Idle == phase = "live" /\ pending = <<>>

\* room for one more remote call of each kind
Room == ~configured \/ (Cardinality(pushLogsQ) < MaxInFlight /\
                         Cardinality(pushRestQ) < MaxInFlight)

----------------------------------------------------------------------------
(* Exercise card: editing the working set *)

\* setSetField: "" gives NaN, a negative number gives 0
FieldValue(raw) == IF raw = NaN THEN NaN ELSE Max0(raw)

Edit(e, ss, name) ==
    /\ Idle
    /\ userOps < MaxUserOps
    /\ userOps' = userOps + 1
    /\ Render(logs, dateStr, {}, [x \in {e} |-> ss], timers, autoSaveRef)
    /\ lastOp' = Op(name, e, "")
    /\ UNCHANGED <<otherVars, configured, phase, selectedDay, dateStr, logs, restOverrides, syncing, syncError,
                   lsV2, lsRest, lsClientId, remoteLogs, remoteRest, pullPc, pullRows,
                   cancelled, pushLogsQ, pushRestQ, clearQ, pending>>

SetReps(e) ==
    \E idx \in 1..Len(sets[e]), raw \in RepsRaw :
        Edit(e, [sets[e] EXCEPT ![idx].reps = FieldValue(raw)], "setSetField")

SetWeight(e) ==
    /\ trackWeight(e)
    /\ \E idx \in 1..Len(sets[e]), raw \in WeightRaw :
           Edit(e, [sets[e] EXCEPT ![idx].weight = FieldValue(raw)], "setSetField")

addSet(e) ==
    /\ Len(sets[e]) < MaxSets
    /\ LET last  == getLastLogForExercise(e, logs, dateStr)
           lastW == IF Len(sets[e]) > 0 THEN sets[e][Len(sets[e])].weight
                    ELSE IF last # <<>> /\ Len(last[1].sets) > 0
                         THEN last[1].sets[1].weight ELSE 0
       IN  Edit(e, Append(sets[e], SetEntry(StarterReps, IF trackWeight(e) THEN lastW ELSE 0)),
                "addSet")

removeSet(e) ==
    \E idx \in 1..Len(sets[e]) :
        Edit(e, [i \in 1..(Len(sets[e]) - 1) |->
                    IF i < idx THEN sets[e][i] ELSE sets[e][i + 1]], "removeSet")

prefillLast(e) ==
    LET last == getLastLogForExercise(e, logs, dateStr)
    IN  /\ last # <<>> /\ Len(last[1].sets) > 0
        /\ Edit(e, last[1].sets, "prefillLast")

----------------------------------------------------------------------------
(* Commits to the ledger *)

\* variant: the new log is appended without filtering the old one out
CommitLogAppend(l, d, e, ss) == l \o <<ExerciseLog(d, e, ss)>>

\* logs.filter(not (date, exerciseId)) followed by the new log
CommitLog(l, d, e, ss) ==
    SelectSeq(l, LAMBDA x : ~(x.date = d /\ x.ex = e)) \o <<ExerciseLog(d, e, ss)>>

\* saveToday's validation
ValidSets(ss) ==
    Len(ss) > 0 /\ \A i \in 1..Len(ss) : Gt(ss[i].reps, 0) /\ Ge(ss[i].weight, 0)

\* the sets saveToday writes
SavedSets(e, ss) ==
    MapSets(LAMBDA x : SetEntry(x.reps, IF trackWeight(e) THEN x.weight ELSE 0), ss)

\* the sets the auto-save writes
SanitizedSets(e, ss) ==
    MapSets(LAMBDA x : SetEntry(Max0(FiniteOr0(x.reps)),
                                IF trackWeight(e)
                                THEN Max0(roundToStep(FiniteOr0(x.weight))) ELSE 0), ss)

saveToday(e) ==
    /\ Idle /\ Room
    /\ userOps < MaxUserOps
    /\ userOps' = userOps + 1
    /\ IF ValidSets(sets[e])
       THEN /\ logs' = CommitLog(logs, dateStr, e, SavedSets(e, sets[e]))
            /\ Render(logs', dateStr, {<<dateStr, e>>}, NoEdit, timers, autoSaveRef)
            /\ pending' = LogsEffect
            /\ lastOp' = Op("saveToday", e,
                            IF <<dateStr, e>> \in KeysOf(logs) THEN "replaced" ELSE "added")
       ELSE /\ UNCHANGED <<logs, sets, timers, autoSaveRef, pending>>
            /\ lastOp' = Op("saveToday", e, "rejected")
    /\ UNCHANGED <<otherVars, configured, phase, selectedDay, dateStr, restOverrides, syncing, syncError, lsV2,
                   lsRest, lsClientId, remoteLogs, remoteRest, pullPc, pullRows,
                   cancelled, pushLogsQ, pushRestQ, clearQ>>

\* the timeout callback of the auto-save effect, 800 ms after it was armed
AutoSaveFire(e) ==
    /\ Idle /\ Room
    /\ \E c \in timers[e] :
        LET ts   == [timers EXCEPT ![e] = @ \ {c}]
            refs == [autoSaveRef EXCEPT ![e] = IF @ = <<c>> THEN <<>> ELSE @]
        IN  IF Len(c.sets) = 0
            THEN /\ timers' = ts
                 /\ autoSaveRef' = refs
                 /\ lastOp' = Op("autoSave", e, "empty")
                 /\ UNCHANGED <<logs, sets, pending>>
            ELSE /\ logs' = CommitLog(c.logs, c.date, e, SanitizedSets(e, c.sets))
                 /\ Render(logs', dateStr, {<<c.date, e>>}, NoEdit, ts, refs)
                 /\ pending' = LogsEffect
                 /\ lastOp' = Op("autoSave", e,
                                 IF <<c.date, e>> \in KeysOf(logs) THEN "replaced" ELSE "added")
    /\ UNCHANGED <<otherVars, configured, phase, selectedDay, dateStr, restOverrides, syncing, syncError, lsV2,
                   lsRest, lsClientId, remoteLogs, remoteRest, pullPc, pullRows,
                   cancelled, pushLogsQ, pushRestQ, clearQ, userOps>>

----------------------------------------------------------------------------
(* The other user events *)

\* the date input's onChange
DateChange ==
    /\ Idle
    /\ userOps < MaxUserOps
    /\ userOps' = userOps + 1
    /\ \E d \in Dates \ {dateStr} :
           /\ dateStr' = d
           /\ Render(logs, d, {}, NoEdit, timers, autoSaveRef)
    /\ lastOp' = Op("setDateStr", "", "")
    /\ UNCHANGED <<otherVars, configured, phase, selectedDay, logs, restOverrides, syncing, syncError, lsV2,
                   lsRest, lsClientId, remoteLogs, remoteRest, pullPc, pullRows,
                   cancelled, pushLogsQ, pushRestQ, clearQ, pending>>

RestMin == 10
RestMax == 999

\* variant: the seconds are capped at 999 only
ClampRestNoFloor(sec) == IF sec > RestMax THEN RestMax ELSE sec

\* Math.max(10, Math.min(999, Math.round(sec)))
ClampRest(sec) == IF sec < RestMin THEN RestMin ELSE IF sec > RestMax THEN RestMax ELSE sec

updateRest(e) ==
    /\ Idle /\ Room
    /\ userOps < MaxUserOps
    /\ userOps' = userOps + 1
    /\ \E sec \in RestRaw :
           restOverrides' = [x \in DOMAIN restOverrides \cup {e} |->
                                IF x = e THEN ClampRest(sec) ELSE restOverrides[x]]
    /\ pending' = RestEffect
    /\ lastOp' = Op("updateRest", e, "")
    /\ UNCHANGED <<otherVars, configured, phase, selectedDay, dateStr, logs, syncing, syncError, sets, timers,
                   autoSaveRef, lsV2, lsRest, lsClientId, remoteLogs, remoteRest, pullPc,
                   pullRows, cancelled, pushLogsQ, pushRestQ, clearQ>>

\* Clear All Logs, confirmed
ClearAll ==
    /\ Idle /\ Room
    /\ clearQ < MaxInFlight
    /\ userOps < MaxUserOps
    /\ userOps' = userOps + 1
    /\ logs' = <<>>
    /\ Render(logs', dateStr, {}, NoEdit, timers, autoSaveRef)
    /\ clearQ' = IF configured /\ lsClientId # "" THEN clearQ + 1 ELSE clearQ
    /\ pending' = LogsEffect
    /\ lastOp' = Op("clearAll", "", "")
    /\ UNCHANGED <<otherVars, configured, phase, selectedDay, dateStr, restOverrides, syncing, syncError, lsV2,
                   lsRest, lsClientId, remoteLogs, remoteRest, pullPc, pullRows,
                   cancelled, pushLogsQ, pushRestQ>>

\* the day select's onChange: the cards of the old day unmount (their
\* cleanups clear their timeouts), the cards of the new day mount
SelectDay ==
    /\ Idle
    /\ userOps < MaxUserOps
    /\ userOps' = userOps + 1
    /\ \E d \in DAYS \ {selectedDay} :
           /\ selectedDay' = d
           /\ sets' = [e \in dayExercises(d) |->
                          initialSets(getLastLogForExercise(e, logs, dateStr), e)]
           /\ timers' = [e \in dayExercises(d) |-> {Closure(sets'[e], logs, dateStr)}]
           /\ autoSaveRef' = [e \in dayExercises(d) |-> <<Closure(sets'[e], logs, dateStr)>>]
    /\ lastOp' = Op("setSelectedDay", "", "")
    /\ UNCHANGED <<otherVars, configured, phase, dateStr, logs, restOverrides, syncing, syncError,
                   lsV2, lsRest, lsClientId, remoteLogs, remoteRest, pullPc, pullRows,
                   cancelled, pushLogsQ, pushRestQ, clearQ, pending>>

\* the component is unmounted: the cleanups of the effects run
Unmount ==
    /\ Idle
    /\ phase' = "dead"
    /\ cancelled' = TRUE
    /\ timers' = [e \in DOMAIN sets |-> clearTimeout(autoSaveRef[e], timers[e])]
    /\ lastOp' = Op("unmount", "", "")
    /\ UNCHANGED <<otherVars, configured, selectedDay, dateStr, logs, restOverrides, syncing, syncError, sets,
                   autoSaveRef, lsV2, lsRest, lsClientId, remoteLogs, remoteRest, pullPc,
                   pullRows, pushLogsQ, pushRestQ, clearQ, pending, userOps>>

----------------------------------------------------------------------------
(* Startup pull: the continuations of pullFromSupabase *)

\* the rows of wb_logs for the client, ordered by date ascending (rows of one
\* date in any order)
SelectLogs(tbl) ==
    LET n == Cardinality(DOMAIN tbl)
    IN  {[i \in 1..n |-> [date |-> q[i][1], ex |-> q[i][2], sets |-> tbl[q[i]]]] :
            q \in {f \in [1..n -> DOMAIN tbl] :
                      /\ \A i, j \in 1..n : f[i] = f[j] => i = j
                      /\ \A i, j \in 1..n : i < j => f[i][1] <= f[j][1]}}

\* rows -> ExerciseLog[], every number through Number(x) || 0
RowsToLogs(rows) ==
    [i \in 1..Len(rows) |->
        ExerciseLog(rows[i].date, rows[i].ex,
                    MapSets(LAMBDA x : SetEntry(NumberOr0(x.reps), NumberOr0(x.weight)),
                            rows[i].sets))]

\* rows of wb_rest_overrides -> Record<exerciseId, seconds>
RowsToRest(tbl) == [e \in DOMAIN tbl |-> NumberOr0(tbl[e])]

\* variant: the rows of the remote are merged into the local ledger
PullLedgerMerge(local, remote) == local \o remote

\* the ledger after a pull that returned remote: remote if it has rows
PullLedger(local, remote) == IF Len(remote) > 0 THEN remote ELSE local

\* the rest overrides after a pull that returned remote
PullRest(local, remote) == IF DOMAIN remote # {} THEN remote ELSE local

\* variant: the ledger rows are applied as soon as they arrive, before the
\* rest overrides are fetched
PullLogsOkEager ==
    /\ pullPc = "logsSel" /\ pending = <<>> /\ Room
    /\ \E rows \in SelectLogs(remoteLogs) : pullRows' = RowsToLogs(rows)
    /\ pullPc' = "restSel"
    /\ logs' = IF cancelled THEN logs ELSE PullLedger(logs, pullRows')
    /\ lsV2' = IF ~cancelled /\ Len(pullRows') > 0 THEN saveLogs(logs') ELSE lsV2
    /\ IF ~cancelled /\ Len(pullRows') > 0
       THEN /\ Render(logs', dateStr, KeysOf(logs'), NoEdit, timers, autoSaveRef)
            /\ pending' = LogsEffect
       ELSE UNCHANGED <<sets, timers, autoSaveRef, pending>>
    /\ lastOp' = Op("pullLogs", "", "ok")
    /\ UNCHANGED <<otherVars, configured, phase, selectedDay, dateStr, restOverrides, syncing,
                   syncError, lsRest, lsClientId, remoteLogs, remoteRest, cancelled,
                   pushLogsQ, pushRestQ, clearQ, userOps>>

PullLogsOk ==
    /\ pullPc = "logsSel" /\ pending = <<>>
    /\ \E rows \in SelectLogs(remoteLogs) : pullRows' = RowsToLogs(rows)
    /\ pullPc' = "restSel"
    /\ lastOp' = Op("pullLogs", "", "ok")
    /\ UNCHANGED <<otherVars, configured, phase, selectedDay, dateStr, logs, restOverrides, syncing, syncError,
                   sets, timers, autoSaveRef, lsV2, lsRest, lsClientId, remoteLogs,
                   remoteRest, cancelled, pushLogsQ, pushRestQ, clearQ, pending, userOps>>

\* catch and finally of pullFromSupabase
PullFailed(arg) ==
    /\ pullPc' = "done"
    /\ syncError' = IF cancelled THEN syncError ELSE "select failed"
    /\ syncing' = IF cancelled THEN syncing ELSE FALSE
    /\ lastOp' = Op("pullFailed", "", arg)
    /\ UNCHANGED <<otherVars, configured, phase, selectedDay, dateStr, logs, restOverrides, sets, timers,
                   autoSaveRef, lsV2, lsRest, lsClientId, remoteLogs, remoteRest,
                   pullRows, cancelled, pushLogsQ, pushRestQ, clearQ, pending, userOps>>

PullLogsErr ==
    /\ pullPc = "logsSel" /\ pending = <<>>
    /\ PullFailed("logs")

PullRestErr ==
    /\ pullPc = "restSel" /\ pending = <<>>
    /\ PullFailed("rest")

PullRestOk ==
    /\ pullPc = "restSel" /\ pending = <<>> /\ Room
    /\ pullPc' = "done"
    /\ IF cancelled
       THEN /\ UNCHANGED <<logs, lsV2, restOverrides, lsRest, sets, timers, autoSaveRef,
                           pending, syncing>>
            /\ lastOp' = Op("pullDone", "", "cancelled")
       ELSE LET remoteRows == RowsToRest(remoteRest)
            IN  /\ logs' = PullLedger(logs, pullRows)
                /\ lsV2' = IF Len(pullRows) > 0 THEN saveLogs(logs') ELSE lsV2
                /\ restOverrides' = PullRest(restOverrides, remoteRows)
                /\ lsRest' = IF DOMAIN remoteRows # {}
                             THEN saveRestOverrides(restOverrides') ELSE lsRest
                /\ IF Len(pullRows) > 0
                   THEN Render(logs', dateStr, KeysOf(logs'), NoEdit, timers, autoSaveRef)
                   ELSE UNCHANGED <<sets, timers, autoSaveRef>>
                /\ pending' = (IF Len(pullRows) > 0 THEN LogsEffect ELSE <<>>) \o
                              (IF DOMAIN remoteRows # {} THEN RestEffect ELSE <<>>)
                /\ syncing' = FALSE
                /\ lastOp' = Op("pullDone", "", "applied")
    /\ UNCHANGED <<otherVars, configured, phase, selectedDay, dateStr, syncError, lsClientId, remoteLogs,
                   remoteRest, pullRows, cancelled, pushLogsQ, pushRestQ, clearQ, userOps>>

----------------------------------------------------------------------------
(* Remote calls returning: ledger upsert, override delete and insert,      *)
(* Clear-All delete                                                        *)

\* upsert on conflict (client_id, date, exercise_id): a row of the table with
\* the key of a sent row is overwritten, a missing one is inserted
Upsert(tbl, rows) ==
    [k \in DOMAIN tbl \cup KeysOf(rows) |->
        IF k \in KeysOf(rows)
        THEN rows[CHOOSE i \in 1..Len(rows) :
                    KeyOf(rows[i]) = k /\ \A j \in 1..Len(rows) : KeyOf(rows[j]) = k => j <= i].sets
        ELSE tbl[k]]

\* setSyncError from a continuation; nothing happens on an unmounted component
SetSyncError(msg) == syncError' = IF phase = "live" THEN msg ELSE syncError

Age(p) == IF p.stale THEN "stale" ELSE "current"

PushLogsOk ==
    /\ pending = <<>>
    /\ \E p \in pushLogsQ :
           /\ remoteLogs' = Upsert(remoteLogs, p.rows)
           /\ pushLogsQ' = pushLogsQ \ {p}
           /\ lastOp' = OpOf("upsertOk", "", "", Age(p))
    /\ UNCHANGED <<otherVars, configured, phase, selectedDay, dateStr, logs, restOverrides, syncing, syncError,
                   sets, timers, autoSaveRef, lsV2, lsRest, lsClientId, remoteRest,
                   pullPc, pullRows, cancelled, pushRestQ, clearQ, pending, userOps>>

PushLogsErr ==
    /\ pending = <<>>
    /\ \E p \in pushLogsQ :
           /\ pushLogsQ' = pushLogsQ \ {p}
           /\ lastOp' = OpOf("upsertErr", "", "", Age(p))
    /\ SetSyncError("upsert failed")
    /\ UNCHANGED <<otherVars, configured, phase, selectedDay, dateStr, logs, restOverrides, syncing, sets,
                   timers, autoSaveRef, lsV2, lsRest, lsClientId, remoteLogs, remoteRest,
                   pullPc, pullRows, cancelled, pushRestQ, clearQ, pending, userOps>>

\* variant: only the rows about to be inserted are deleted
DeleteRestSent(tbl, p) == [e \in DOMAIN tbl \ DOMAIN p.rows |-> tbl[e]]

\* delete().eq("client_id", clientId) on wb_rest_overrides
DeleteRest(tbl, p) == EmptyTable

\* the delete returned; its result is dropped and the insert is sent
PushRestDeleted(ok) ==
    /\ pending = <<>>
    /\ \E p \in pushRestQ :
           /\ p.step = "delete"
           /\ remoteRest' = IF ok THEN DeleteRest(remoteRest, p) ELSE remoteRest
           /\ pushRestQ' = (pushRestQ \ {p}) \cup
                               {[p EXCEPT !.step = "insert", !.deleted = ok]}
           /\ lastOp' = OpOf(IF ok THEN "restDeleteOk" ELSE "restDeleteErr", "", "", Age(p))
    /\ UNCHANGED <<otherVars, configured, phase, selectedDay, dateStr, logs, restOverrides, syncing, syncError,
                   sets, timers, autoSaveRef, lsV2, lsRest, lsClientId, remoteLogs,
                   pullPc, pullRows, cancelled, pushLogsQ, clearQ, pending, userOps>>

PushRestDeleteOk == PushRestDeleted(TRUE)

PushRestDeleteErr == PushRestDeleted(FALSE)

\* insert(rows): rows are keyed by (client_id, exercise_id), a row whose key
\* is in the table is refused and nothing is inserted
PushRestInsertOk ==
    /\ pending = <<>>
    /\ \E p \in pushRestQ :
           /\ p.step = "insert"
           /\ DOMAIN p.rows \cap DOMAIN remoteRest = {}
           /\ remoteRest' = [e \in DOMAIN remoteRest \cup DOMAIN p.rows |->
                                IF e \in DOMAIN p.rows THEN p.rows[e] ELSE remoteRest[e]]
           /\ pushRestQ' = pushRestQ \ {p}
           /\ lastOp' = OpOf("restInsertOk", "", IF p.deleted THEN "deleted" ELSE "kept",
                             Age(p))
    /\ UNCHANGED <<otherVars, configured, phase, selectedDay, dateStr, logs, restOverrides, syncing, syncError,
                   sets, timers, autoSaveRef, lsV2, lsRest, lsClientId, remoteLogs,
                   pullPc, pullRows, cancelled, pushLogsQ, clearQ, pending, userOps>>

PushRestInsertErr ==
    /\ pending = <<>>
    /\ \E p \in pushRestQ :
           /\ p.step = "insert"
           /\ pushRestQ' = pushRestQ \ {p}
           /\ lastOp' = OpOf("restInsertErr", "", IF p.deleted THEN "deleted" ELSE "kept",
                             Age(p))
    /\ SetSyncError("insert failed")
    /\ UNCHANGED <<otherVars, configured, phase, selectedDay, dateStr, logs, restOverrides, syncing, sets,
                   timers, autoSaveRef, lsV2, lsRest, lsClientId, remoteLogs, remoteRest,
                   pullPc, pullRows, cancelled, pushLogsQ, clearQ, pending, userOps>>

\* the Clear-All delete of the client's wb_logs rows returned; its result is dropped
ClearDeleted(ok) ==
    /\ pending = <<>>
    /\ clearQ > 0
    /\ clearQ' = clearQ - 1
    /\ remoteLogs' = IF ok THEN EmptyTable ELSE remoteLogs
    /\ lastOp' = Op(IF ok THEN "clearDeleteOk" ELSE "clearDeleteErr", "", "")
    /\ UNCHANGED <<otherVars, configured, phase, selectedDay, dateStr, logs, restOverrides, syncing, syncError,
                   sets, timers, autoSaveRef, lsV2, lsRest, lsClientId, remoteRest,
                   pullPc, pullRows, cancelled, pushLogsQ, pushRestQ, pending, userOps>>

ClearDeleteOk == ClearDeleted(TRUE)

ClearDeleteErr == ClearDeleted(FALSE)

----------------------------------------------------------------------------
(* The specification *)

CardNext ==
    \E e \in DOMAIN sets :
        \/ SetReps(e)
        \/ SetWeight(e)
        \/ addSet(e)
        \/ removeSet(e)
        \/ prefillLast(e)
        \/ saveToday(e)
        \/ AutoSaveFire(e)
        \/ updateRest(e)

Next ==
    \/ Mount
    \/ SaveLogsEffect
    \/ PushLogsEffect
    \/ SaveRestEffect
    \/ PushRestEffect
    \/ CardNext
    \/ DateChange
    \/ SelectDay
    \/ ClearAll
    \/ Unmount
    \/ PullLogsOk
    \/ PullLogsErr
    \/ PullRestOk
    \/ PullRestErr
    \/ PushLogsOk
    \/ PushLogsErr
    \/ PushRestDeleteOk
    \/ PushRestDeleteErr
    \/ PushRestInsertOk
    \/ PushRestInsertErr
    \/ ClearDeleteOk
    \/ ClearDeleteErr

Spec == Init /\ [][Next]_vars

\* The device without a remote store: every event of the cards and the App.
InitLocal == Init /\ ~configured

NextLocal ==
    \/ Mount
    \/ SaveLogsEffect
    \/ PushLogsEffect
    \/ SaveRestEffect
    \/ PushRestEffect
    \/ CardNext
    \/ DateChange
    \/ SelectDay
    \/ ClearAll
    \/ Unmount

SpecLocal == InitLocal /\ [][NextLocal]_vars

\* The device with a remote store, on the day shown first.
InitSync == Init /\ configured

\* the startup pull, the effects and every remote call, in every order and
\* outcome
NetNext ==
    \/ Mount
    \/ SaveLogsEffect
    \/ PushLogsEffect
    \/ SaveRestEffect
    \/ PushRestEffect
    \/ Unmount
    \/ PullLogsOk
    \/ PullLogsErr
    \/ PullRestOk
    \/ PullRestErr
    \/ PushLogsOk
    \/ PushLogsErr
    \/ PushRestDeleteOk
    \/ PushRestDeleteErr
    \/ PushRestInsertOk
    \/ PushRestInsertErr

\* ... with the auto-save of the card changing the ledger, with and without
\* a remote store
NextLedgerSync ==
    \/ NetNext
    \/ \E e \in DOMAIN sets : AutoSaveFire(e)

SpecLedgerSync == Init /\ [][NextLedgerSync]_vars

\* ... the user touching nothing, under the scheduling of the browser: an
\* effect that is due runs, a timeout that is pending fires, and every remote
\* call returns, with a result or an error. Closing the page is up to the
\* user.
FairQuiet ==
    /\ WF_vars(Mount)
    /\ WF_vars(SaveLogsEffect)
    /\ WF_vars(PushLogsEffect)
    /\ WF_vars(SaveRestEffect)
    /\ WF_vars(PushRestEffect)
    /\ WF_vars(\E e \in DOMAIN sets : AutoSaveFire(e))
    /\ WF_vars(PullLogsOk \/ PullLogsErr)
    /\ WF_vars(PullRestOk \/ PullRestErr)
    /\ WF_vars(PushLogsOk \/ PushLogsErr)
    /\ WF_vars(PushRestDeleteOk \/ PushRestDeleteErr)
    /\ WF_vars(PushRestInsertOk \/ PushRestInsertErr)

SpecQuiet == Init /\ [][NextLedgerSync]_vars /\ FairQuiet

\* ... with the user changing the rest overrides
NextRestSync ==
    \/ NetNext
    \/ \E e \in DOMAIN sets : updateRest(e)

SpecRestSync == InitSync /\ [][NextRestSync]_vars

\* ... with Clear All Logs and its delete, with and without a remote store
NextClearSync ==
    \/ NetNext
    \/ ClearAll
    \/ ClearDeleteOk
    \/ ClearDeleteErr

SpecClearSync == Init /\ [][NextClearSync]_vars

\* ... with the user changing a weight and pressing Save
NextSaveSync ==
    \/ NetNext
    \/ \E e \in DOMAIN sets : SetWeight(e)
    \/ \E e \in DOMAIN sets : saveToday(e)

SpecSaveSync == InitSync /\ [][NextSaveSync]_vars

\* The device with a remote store every call to which succeeds: the startup
\* pull, the effects, the auto-save of the card and the user changing the
\* rest overrides, the calls returning in every order.
NextOkSync ==
    \/ Mount
    \/ SaveLogsEffect
    \/ PushLogsEffect
    \/ SaveRestEffect
    \/ PushRestEffect
    \/ PullLogsOk
    \/ PullRestOk
    \/ PushLogsOk
    \/ PushRestDeleteOk
    \/ PushRestInsertOk
    \/ \E e \in DOMAIN sets : AutoSaveFire(e)
    \/ \E e \in DOMAIN sets : updateRest(e)

SpecOkSync == InitSync /\ [][NextOkSync]_vars

----------------------------------------------------------------------------
(* Prescription texts (parseScheme): a text is a sequence of characters,   *)
(* "times" standing for the multiplication sign and "endash" for the en    *)
(* dash; a failed match (null) is <<>>, a match the tuple of its groups    *)

IsDigit(c) == c \in {"0", "1", "2", "3", "4", "5", "6", "7", "8", "9"}

\* Number(text) of a text of digits
RECURSIVE ToNumber(_)
ToNumber(ds) ==
    IF ds = <<>> THEN 0
    ELSE 10 * ToNumber(SubSeq(ds, 1, Len(ds) - 1))
         + (CHOOSE n \in 0..9 :
                <<"0", "1", "2", "3", "4", "5", "6", "7", "8", "9">>[n + 1] = ds[Len(ds)])

\* the i flag, on the letters the patterns name
Fold(c) ==
    CASE c = "R" -> "r" [] c = "I" -> "i" [] c = "E" -> "e" [] c = "P" -> "p"
      [] c = "S" -> "s" [] c = "X" -> "x" [] OTHER -> c

\* \d+ from position i, greedy: the last position of the run of digits
DigitsEnd(s, i) ==
    CHOOSE j \in i..Len(s) :
        /\ \A k \in i..j : IsDigit(s[k])
        /\ j = Len(s) \/ ~IsDigit(s[j + 1])

\* \s* from position k: the first position after the blanks
SkipSpaces(s, k) ==
    CHOOSE j \in k..(Len(s) + 1) :
        /\ \A x \in k..(j - 1) : s[x] = " "
        /\ j > Len(s) \/ s[j] # " "

\* a literal of the pattern at position k
LitAt(s, k, lit) ==
    /\ k + Len(lit) - 1 <= Len(s)
    /\ \A x \in 1..Len(lit) : Fold(s[k + x - 1]) = lit[x]

IsDash(c) == c \in {"endash", "-"}

\* String.prototype.match without the g flag: the leftmost start that matches
Leftmost(starts) == CHOOSE i \in starts : \A j \in starts : i <= j

\* s.match(/(\d+)\s*[x (times)]/i)
setMatch(s) ==
    LET after(i) == SkipSpaces(s, DigitsEnd(s, i) + 1)
        starts == {i \in 1..Len(s) : IsDigit(s[i]) /\ after(i) <= Len(s)
                                     /\ Fold(s[after(i)]) \in {"x", "times"}}
    IN  IF starts = {} THEN <<>>
        ELSE <<SubSeq(s, Leftmost(starts), DigitsEnd(s, Leftmost(starts)))>>

\* s.match(/(\d+)\s*[dash]\s*(\d+)/)
repRange(s) ==
    LET dashAt(i) == SkipSpaces(s, DigitsEnd(s, i) + 1)
        second(i) == SkipSpaces(s, dashAt(i) + 1)
        starts == {i \in 1..Len(s) : /\ IsDigit(s[i])
                                     /\ dashAt(i) <= Len(s)
                                     /\ IsDash(s[dashAt(i)])
                                     /\ second(i) <= Len(s)
                                     /\ IsDigit(s[second(i)])}
    IN  IF starts = {} THEN <<>>
        ELSE LET i == Leftmost(starts)
             IN  <<SubSeq(s, i, DigitsEnd(s, i)),
                   SubSeq(s, second(i), DigitsEnd(s, second(i)))>>

\* s.match(/(\d+)\s*(?:reps?|$)/i): digits followed by "rep" or by the end of
\* the text
singleRep(s) ==
    LET after(i) == SkipSpaces(s, DigitsEnd(s, i) + 1)
        starts == {i \in 1..Len(s) : /\ IsDigit(s[i])
                                     /\ \/ LitAt(s, after(i), <<"r", "e", "p">>)
                                        \/ after(i) > Len(s)}
    IN  IF starts = {} THEN <<>>
        ELSE <<SubSeq(s, Leftmost(starts), DigitsEnd(s, Leftmost(starts)))>>

\* where group 1 of s.match(/RIR\s*(\d(?:[dash]\d)?)/i) lies: <<from, to>>
rirSpan(s) ==
    LET digitAt(i) == SkipSpaces(s, i + 3)
        starts == {i \in 1..Len(s) : /\ LitAt(s, i, <<"r", "i", "r">>)
                                     /\ digitAt(i) <= Len(s)
                                     /\ IsDigit(s[digitAt(i)])}
    IN  IF starts = {} THEN <<>>
        ELSE LET k == digitAt(Leftmost(starts))
             IN  IF k + 2 <= Len(s) /\ IsDash(s[k + 1]) /\ IsDigit(s[k + 2])
                 THEN <<k, k + 2>> ELSE <<k, k>>

rir(s) == IF rirSpan(s) = <<>> THEN <<>> ELSE <<SubSeq(s, rirSpan(s)[1], rirSpan(s)[2])>>

AMRAP == <<"A", "M", "R", "A", "P">>

\* " reps"
RepsSuffix == <<" ", "r", "e", "p", "s">>

\* "@ RIR "
RirPrefix == <<"@", " ", "R", "I", "R", " ">>

\* parseScheme: sets is <<>> for null, rirText <<>> for undefined
parseScheme(s) ==
    [sets    |-> IF setMatch(s) # <<>> THEN <<ToNumber(setMatch(s)[1])>> ELSE <<>>,
     repText |-> IF repRange(s) # <<>>
                 THEN repRange(s)[1] \o <<"endash">> \o repRange(s)[2] \o RepsSuffix
                 ELSE IF singleRep(s) # <<>> THEN singleRep(s)[1] \o RepsSuffix
                 ELSE AMRAP,
     rirText |-> IF rir(s) # <<>> THEN <<RirPrefix \o rir(s)[1]>> ELSE <<>>]

\* the schemes parseScheme is called with: what a scheme starts with (the
\* sets and repetitions, or AMRAP) followed by a RIR annotation, if any
Schemes ==
    LET bodies ==
            {<<"A", "M", "R", "A", "P">>,
             <<"A", "M", "R", "A", "P", " ", "t", "o">>,
             <<"A", "M", "R", "A", "P", " ", "s", "e", "t", "s", " ", "t", "o">>,
             <<"3", "times", "5">>,
             <<"3", "times", "6", "endash", "1", "0">>,
             <<"2", "endash", "3", "times", "6", "endash", "1", "0">>,
             <<"5", " ", "r", "e", "p", "s">>,
             <<"3", " ", "x", " ", "8">>}
        annotations ==
            {<<>>,
             <<" ", "R", "I", "R", "2">>,
             <<" ", "@", " ", "R", "I", "R", "2">>,
             <<" ", "@", " ", "R", "I", "R", " ", "2">>,
             <<" ", "@", " ", "R", "I", "R", "1", "endash", "2">>,
             <<" ", "@", " ", "R", "I", "R", "2", " ", "(", "h", "e", "a", "v", "y", ")">>}
    IN  {b \o a : b \in bodies, a \in annotations}

----------------------------------------------------------------------------
(* Local storage on its own: the load and save functions called on every   *)
(* content of the store                                                    *)

\* legacy logs in one legacy blob, at most
MaxLegacy == 2

\* the split tracker's component before it is rendered, without a remote store
ComponentIdle ==
    /\ configured = FALSE
    /\ phase = "new"
    /\ selectedDay = "Push"
    /\ dateStr = Today
    /\ logs = <<>>
    /\ restOverrides = EmptyTable
    /\ syncing = FALSE
    /\ syncError = ""
    /\ sets = EmptyTable
    /\ timers = EmptyTable
    /\ autoSaveRef = EmptyTable
    /\ lsClientId = ""
    /\ remoteLogs = EmptyTable
    /\ remoteRest = EmptyTable
    /\ pullPc = "none"
    /\ pullRows = <<>>
    /\ cancelled = FALSE
    /\ pushLogsQ = {}
    /\ pushRestQ = {}
    /\ clearQ = 0
    /\ pending = <<>>
    /\ userOps = 0

\* wb_logs_v1: absent, unparseable, or a list of legacy logs (with a
\* weight, without one (null), with the weight 0)
LegacyBlobs ==
    LET legacyLogs ==
            {LegacyLog(1, "wrist-curl", 5), LegacyLog(1, "wrist-curl", Null),
             LegacyLog(2, "front-squat", 0)}
    IN  {<<>>, Garbage} \cup
        {<<s>> : s \in UNION {[1..n -> legacyLogs] : n \in 0..MaxLegacy}}

\* the ledgers saveLogs is called with: the empty one (Clear All Logs) too
SavedLedgers == {<<>>, <<HistoryLog>>}

\* wb_logs_v2: absent, unparseable, or a ledger saveLogs wrote
StoredLedgers == {<<>>, Garbage} \cup {saveLogs(l) : l \in SavedLedgers}

\* a Persisted state with one session and one set of it
StoredPersisted ==
    [DefaultPersisted EXCEPT
        !.sessions = <<[id |-> 1, date |-> Today, templateDay |-> ""]>>,
        !.sets = <<[id |-> 2, sessionId |-> 1, exerciseId |-> "bench", weight |-> 120,
                    reps |-> 8, rir |-> 2, timestamp |-> 2]>>,
        !.bodyweightKg = 80,
        !.baselineMode = FALSE]

InitStorage ==
    /\ ComponentIdle
    /\ lsV2 \in StoredLedgers
    /\ lsV1 \in LegacyBlobs
    /\ lsRest \in {<<>>, Garbage, saveRestOverrides(HistoryRest)}
    /\ lsApp \in {<<>>, Garbage, savePersisted(StoredPersisted)}
    /\ data = DefaultPersisted
    /\ currentSessionId = NoSession
    /\ form = DefaultForm
    /\ forms = EmptyTable
    /\ clock = 0
    /\ args = <<>>
    /\ ret = <<>>
    /\ lastOp = Op("init", "", "")

\* loadLogs() is called; lastOp records the path it took and, when the step
\* before was a loadLogs too, the path of that one
CallLoadLogs ==
    LET r == loadLogs(lsV2, lsV1)
    IN  /\ args' = [v2 |-> lsV2, v1 |-> lsV1]
        /\ ret' = r
        /\ lsV2' = r.v2
        /\ lastOp' = OpOf("loadLogs", "", r.path,
                          IF lastOp.op = "loadLogs" THEN lastOp.arg ELSE "")
        /\ UNCHANGED <<configured, phase, selectedDay, dateStr, logs, restOverrides, syncing,
                       syncError, sets, timers, autoSaveRef, lsRest, lsClientId,
                       remoteLogs, remoteRest, pullPc, pullRows, cancelled, pushLogsQ,
                       pushRestQ, clearQ, pending, userOps, lsV1, lsApp, data,
                       currentSessionId, form, forms, clock>>

\* lsV2 is written by the step, the rest of the tracker's state is left alone
CallSaveLogs ==
    \E l \in SavedLedgers :
        /\ args' = [logs |-> l]
        /\ ret' = <<>>
        /\ lsV2' = saveLogs(l)
        /\ lastOp' = Op("saveLogs", "", "")
        /\ UNCHANGED <<configured, phase, selectedDay, dateStr, logs, restOverrides, syncing,
                       syncError, sets, timers, autoSaveRef, lsRest, lsClientId,
                       remoteLogs, remoteRest, pullPc, pullRows, cancelled, pushLogsQ,
                       pushRestQ, clearQ, pending, userOps, lsV1, lsApp, data,
                       currentSessionId, form, forms, clock>>

CallLoadRestOverrides ==
    /\ args' = [raw |-> lsRest]
    /\ ret' = loadRestOverrides(lsRest)
    /\ lastOp' = Op("loadRestOverrides", "", "")
    /\ UNCHANGED <<trackerVars, lsV1, lsApp, data, currentSessionId, form, forms, clock>>

CallLoadPersisted ==
    /\ args' = [raw |-> lsApp]
    /\ ret' = loadPersisted(lsApp)
    /\ lastOp' = Op("loadPersisted", "", "")
    /\ UNCHANGED <<trackerVars, lsV1, lsApp, data, currentSessionId, form, forms, clock>>

NextStorage ==
    \/ CallLoadLogs
    \/ CallSaveLogs
    \/ CallLoadRestOverrides
    \/ CallLoadPersisted

SpecStorage == InitStorage /\ [][NextStorage]_vars

----------------------------------------------------------------------------
(* The pure functions called on their own: the arguments are drawn when the *)
(* call is set up, one action per function applies it                       *)

\* logs in a ledger handed to getLastLogForExercise, at most
MaxLogs == 3

\* ledgers of logs of three dates and two exercises, a second log of one
\* date and exercise among them
LastLogInputs ==
    LET lookupLogs ==
            {ExerciseLog(d, e, <<SetEntry(5, 5)>>) :
                d \in 1..3, e \in {"wrist-curl", "front-squat"}}
                \cup {ExerciseLog(2, "wrist-curl", <<SetEntry(5, 6)>>)}
    IN  [exerciseId : {"wrist-curl", "front-squat"},
         logs : UNION {[1..n -> lookupLogs] : n \in 0..MaxLogs},
         beforeDate : {NoDate, 1, 2, 3}]

\* sets in a history handed to suggestNext, at most
MaxHistory == 2

\* suggestNext is called with entries of EXERCISES, an exercise with a 5 kg
\* increment and one without an increment, and histories of sets of 0 kg or
\* 60 kg, 5 or 8 reps, every RIR
SuggestInputs ==
    LET exercises ==
            AppExercises \cup {Exercise("squat", FALSE, 10, <<>>),
                               Exercise("custom", FALSE, 0, <<>>)}
        historySets ==
            {SessionSet(1, 1, "bench", w, r, p, 1) : w \in {0, 120}, r \in {5, 8}, p \in 0..4}
    IN  [ex : exercises, lastSets : UNION {[1..n -> historySets] : n \in 0..MaxHistory}]

\* repetitions handed to epleyE1RM, at most
MaxReps == 12

EpleyInputs == [loadKg : {0, 1, 60, 100}, reps : -1..MaxReps]

\* effectiveLoadKg is called with entries of EXERCISES, a bodyweight
\* movement without a load factor, one with the factor 0, and a free weight
\* that carries a factor
LoadInputs ==
    LET exercises ==
            AppExercises \cup {Exercise("custom", TRUE, DEFAULT_INCREMENT, <<>>),
                               Exercise("hang", TRUE, DEFAULT_INCREMENT, <<0>>),
                               Exercise("row", FALSE, DEFAULT_INCREMENT, <<65>>)}
    IN  [ex : exercises, bodyweightKg : {0, 75, 80}, externalLoadKg : {-20, 0, 10}]

\* a call is set up and not made yet
CallPending(fn) == lastOp = Op("call", "", fn)

InitCalls ==
    /\ ComponentIdle
    /\ lsV2 = <<>>
    /\ lsRest = <<>>
    /\ lsV1 = <<>>
    /\ lsApp = <<>>
    /\ data = DefaultPersisted
    /\ currentSessionId = NoSession
    /\ form = DefaultForm
    /\ forms = EmptyTable
    /\ clock = 0
    /\ ret = <<>>
    /\ \/ args \in LastLogInputs /\ CallPending("getLastLogForExercise")
       \/ args \in SuggestInputs /\ CallPending("suggestNext")
       \/ args \in [s : Schemes] /\ CallPending("parseScheme")
       \/ args \in EpleyInputs /\ CallPending("epleyE1RM")
       \/ args \in LoadInputs /\ CallPending("effectiveLoadKg")

CallGetLastLogForExercise ==
    /\ CallPending("getLastLogForExercise")
    /\ ret' \in getLastLogOutcomes(args.exerciseId, args.logs, args.beforeDate)
    /\ lastOp' = Op("getLastLogForExercise", "", "")
    /\ UNCHANGED <<trackerVars, lsV1, lsApp, data, currentSessionId, form, forms, clock, args>>

CallSuggestNext ==
    /\ CallPending("suggestNext")
    /\ ret' = suggestNext(args.ex, args.lastSets)
    /\ lastOp' = Op("suggestNext", "", "")
    /\ UNCHANGED <<trackerVars, lsV1, lsApp, data, currentSessionId, form, forms, clock, args>>

CallParseScheme ==
    /\ CallPending("parseScheme")
    /\ ret' = parseScheme(args.s)
    /\ lastOp' = Op("parseScheme", "", "")
    /\ UNCHANGED <<trackerVars, lsV1, lsApp, data, currentSessionId, form, forms, clock, args>>

CallEpleyE1RM ==
    /\ CallPending("epleyE1RM")
    /\ ret' = epleyE1RM(args.loadKg, args.reps)
    /\ lastOp' = Op("epleyE1RM", "", "")
    /\ UNCHANGED <<trackerVars, lsV1, lsApp, data, currentSessionId, form, forms, clock, args>>

CallEffectiveLoadKg ==
    /\ CallPending("effectiveLoadKg")
    /\ ret' = effectiveLoadKg(args.ex, args.bodyweightKg, args.externalLoadKg)
    /\ lastOp' = Op("effectiveLoadKg", "", "")
    /\ UNCHANGED <<trackerVars, lsV1, lsApp, data, currentSessionId, form, forms, clock, args>>

NextCalls ==
    \/ CallGetLastLogForExercise
    \/ CallSuggestNext
    \/ CallParseScheme
    \/ CallEpleyE1RM
    \/ CallEffectiveLoadKg

SpecCalls == InitCalls /\ [][NextCalls]_vars

----------------------------------------------------------------------------
(* The session-scoped app at work: sessions, logged sets, the quick logger *)
(* and the planned list. Ids and timestamps come from the clock; an effect *)
(* that a handler triggers is part of the handler's step                   *)

\* sessions and sets are created while the clock is below this
MaxClock == 4

\* two plans of TEMPLATE, each with one of its items
TEMPLATE ==
    [push |-> [label |-> "Push", items |-> <<"pushup">>],
     pull |-> [label |-> "Pull", items |-> <<"pullup">>]]

Session(id, date, templateDay) == [id |-> id, date |-> date, templateDay |-> templateDay]

\* toNumberSafe: 0 for a text that is not a finite number
toNumberSafe(val) == IF val = NaN THEN 0 ELSE val

\* Math.max(1, Math.floor(toNumberSafe(reps)))
RepsOf(val) == IF toNumberSafe(val) < 1 THEN 1 ELSE toNumberSafe(val)

\* Math.min(4, Math.max(0, Math.floor(toNumberSafe(rir))))
RirOf(val) ==
    IF toNumberSafe(val) < 0 THEN 0 ELSE IF toNumberSafe(val) > 4 THEN 4 ELSE toNumberSafe(val)

\* data.sessions.find(s => s.id === currentSessionId) || null, <<>> for null
currentSessionOf(d, cs) ==
    LET found == SelectSeq(d.sessions, LAMBDA s : s.id = cs)
    IN  IF cs = NoSession \/ found = <<>> THEN <<>> ELSE <<found[1]>>

currentSession == currentSessionOf(data, currentSessionId)

\* currentSession?.templateDay, "" when there is none: the planned list is
\* rendered for it, the quick logger otherwise
PlannedLabel(d, cs) ==
    IF currentSessionOf(d, cs) = <<>> THEN "" ELSE currentSessionOf(d, cs)[1].templateDay

\* Object.values(template).find(t => t.label === label)
PlanOf(label) == TEMPLATE[CHOOSE k \in DOMAIN TEMPLATE : TEMPLATE[k].label = label]

\* data.sets.filter(s => s.sessionId === currentSessionId)
sessionSets == SelectSeq(data.sets, LAMBDA s : s.sessionId = currentSessionId)

\* lastSetsByEx[exerciseId] || []
lastSetsByEx(exerciseId) == SelectSeq(sessionSets, LAMBDA s : s.exerciseId = exerciseId)

currentExercise == ExerciseOf(form.exerciseId)

\* the quick logger's suggestion
suggestion == suggestNext(currentExercise, lastSetsByEx(form.exerciseId))

\* sort((a, b) => b.timestamp - a.timestamp): stable, latest first
RECURSIVE SortByTimestampDesc(_)
SortByTimestampDesc(list) ==
    IF list = <<>> THEN <<>>
    ELSE LET top == CHOOSE i \in 1..Len(list) :
                        /\ \A j \in 1..Len(list) : list[j].timestamp <= list[i].timestamp
                        /\ \A j \in 1..(i - 1) : list[j].timestamp < list[i].timestamp
         IN  <<list[top]>> \o
             SortByTimestampDesc(SubSeq(list, 1, top - 1) \o SubSeq(list, top + 1, Len(list)))

\* the body of the prefill effect of PlannedExercises: the forms it sets;
\* recent3 is exHistory.slice(0, 3)
Prefill(label, d) ==
    LET plan == PlanOf(label)
        ids == {plan.items[i] : i \in 1..Len(plan.items)}
    IN  [e \in ids |->
            IF d.baselineMode THEN [weight |-> NaN, reps |-> NaN, rir |-> 2]
            ELSE LET exHistory == SortByTimestampDesc(
                                      SelectSeq(d.sets, LAMBDA s : s.exerciseId = e))
                     recent3 == SubSeq(exHistory, 1,
                                       IF Len(exHistory) < 3 THEN Len(exHistory) ELSE 3)
                     sugg == suggestNext(ExerciseOf(e), recent3)
                 IN  [weight |-> IF sugg.nextWeight # <<>> THEN sugg.nextWeight[1] ELSE 0,
                      reps |-> sugg.nextReps, rir |-> 2]]

\* the prefill effect runs when the planned list is mounted and when its
\* label or the baseline mode has changed
PrefillRuns(d2, cs2) ==
    /\ PlannedLabel(d2, cs2) # ""
    /\ \/ PlannedLabel(data, currentSessionId) # PlannedLabel(d2, cs2)
       \/ data.baselineMode # d2.baselineMode

\* a handler has set the data, the session and the clock: the render after
\* it with its effects (savePersisted on changed data, the prefill)
RenderApp(op, d2, cs2, c2) ==
    /\ data' = d2
    /\ currentSessionId' = cs2
    /\ clock' = c2
    /\ lsApp' = IF d2 # data THEN savePersisted(d2) ELSE lsApp
    /\ forms' = IF PlannedLabel(d2, cs2) = "" THEN EmptyTable
                ELSE IF PrefillRuns(d2, cs2) THEN Prefill(PlannedLabel(d2, cs2), d2)
                ELSE forms
    /\ lastOp' = Op(op, "", IF PrefillRuns(d2, cs2) THEN "prefill" ELSE "")
    /\ UNCHANGED <<trackerVars, lsV1, args, ret>>

\* ensureSession as the handler's closure sees the session id: the data and
\* the session id it leaves
ensureSession(d, cs, label, id) ==
    IF cs # NoSession THEN [data |-> d, cs |-> cs]
    ELSE [data |-> [d EXCEPT !.sessions = <<Session(id, Today, label)>> \o @], cs |-> id]

\* the Start session button, shown without a current session
StartSession ==
    /\ clock < MaxClock
    /\ currentSession = <<>>
    /\ LET r == ensureSession(data, currentSessionId, "", clock + 1)
       IN  RenderApp("ensureSession", r.data, r.cs, clock + 1)
    /\ UNCHANGED form

\* the plan selector: a session is started on the plan, or the plan of the
\* current session is switched (the user confirms)
SelectPlan ==
    \E key \in DOMAIN TEMPLATE :
        /\ clock < MaxClock
        /\ IF currentSession = <<>>
           THEN LET r == ensureSession(data, currentSessionId, TEMPLATE[key].label, clock + 1)
                IN  RenderApp("selectPlan", r.data, r.cs, clock + 1)
           ELSE /\ currentSession[1].templateDay # TEMPLATE[key].label
                /\ RenderApp("selectPlan",
                          [data EXCEPT !.sessions =
                              [i \in 1..Len(@) |->
                                  IF @[i].id = currentSession[1].id
                                  THEN [@[i] EXCEPT !.templateDay = TEMPLATE[key].label]
                                  ELSE @[i]]],
                          currentSessionId, clock)
        /\ UNCHANGED form

\* the End session button, shown with a current session
endSession ==
    /\ currentSession # <<>>
    /\ RenderApp("endSession", data, NoSession, clock)
    /\ UNCHANGED form

\* the fields of the quick logger, shown when no plan is: the user leaves
\* one of a few forms in them
SetForm ==
    /\ PlannedLabel(data, currentSessionId) = ""
    /\ \E f \in {DefaultForm,
                 [exerciseId |-> "pullup", weight |-> 0, reps |-> 8, rir |-> 3],
                 [exerciseId |-> "bench", weight |-> 120, reps |-> 8, rir |-> 3],
                 [exerciseId |-> "bench", weight |-> 120, reps |-> 0, rir |-> 7]} :
          f # form /\ form' = f
    /\ lastOp' = Op("setForm", "", "")
    /\ UNCHANGED <<trackerVars, lsV1, lsApp, data, currentSessionId, forms, clock, args, ret>>

\* addSet of the quick logger: ensureSession queues its updates, sessId is
\* read from the currentSessionId and the data of the render the handler
\* belongs to
quickAddSet ==
    /\ PlannedLabel(data, currentSessionId) = ""
    /\ LET r == ensureSession(data, currentSessionId, "", clock + 1)
           now == IF currentSessionId = NoSession THEN clock + 2 ELSE clock + 1
           sessId == IF currentSessionId # NoSession THEN currentSessionId
                     ELSE IF data.sessions # <<>> THEN data.sessions[1].id ELSE NoSession
           entry == SessionSet(now, sessId, form.exerciseId, toNumberSafe(form.weight),
                               RepsOf(form.reps), RirOf(form.rir), now)
       IN  /\ now <= MaxClock
           /\ IF sessId = NoSession
              THEN RenderApp("addSet", r.data, r.cs, clock + 1)
              ELSE RenderApp("addSet", [r.data EXCEPT !.sets = <<entry>> \o @], r.cs, now)
    /\ UNCHANGED form

\* the fields of a planned exercise
SetPlannedForm ==
    /\ PlannedLabel(data, currentSessionId) # ""
    /\ \E e \in DOMAIN forms :
       \E f \in {[weight |-> 0, reps |-> 8, rir |-> 1], [weight |-> 20, reps |-> 5, rir |-> 3]} :
          /\ forms[e] # f
          /\ forms' = [forms EXCEPT ![e] = f]
    /\ lastOp' = Op("setForms", "", "")
    /\ UNCHANGED <<trackerVars, lsV1, lsApp, data, currentSessionId, form, clock, args, ret>>

\* Log set of a planned exercise: onLog with the fields converted
onLog ==
    /\ clock < MaxClock
    /\ PlannedLabel(data, currentSessionId) # ""
    /\ \E i \in 1..Len(PlanOf(PlannedLabel(data, currentSessionId)).items) :
          LET exId == PlanOf(PlannedLabel(data, currentSessionId)).items[i]
              f == IF exId \in DOMAIN forms THEN forms[exId]
                   ELSE [weight |-> 0, reps |-> 8, rir |-> 2]
              sessId == IF currentSessionId # NoSession THEN currentSessionId
                        ELSE IF data.sessions # <<>> THEN data.sessions[1].id ELSE NoSession
              entry == SessionSet(clock + 1, sessId, exId, toNumberSafe(f.weight),
                                  RepsOf(f.reps), RirOf(f.rir), clock + 1)
          IN  /\ sessId # NoSession
              /\ RenderApp("onLog", [data EXCEPT !.sets = <<entry>> \o @], currentSessionId,
                        clock + 1)
    /\ UNCHANGED form

\* the Baseline week checkbox
ToggleBaseline ==
    /\ RenderApp("baselineMode", [data EXCEPT !.baselineMode = ~@], currentSessionId, clock)
    /\ UNCHANGED form

\* Reset (the user confirms): fresh data is set and saved, currentSessionId
\* is left as it is
clearAll ==
    /\ data # DefaultPersisted
    /\ RenderApp("clearAll", DefaultPersisted, currentSessionId, clock)
    /\ UNCHANGED form

\* the app after its first render: the data loaded and saved back
InitSession ==
    /\ ComponentIdle
    /\ lsV2 = <<>>
    /\ lsRest = <<>>
    /\ lsV1 = <<>>
    /\ lsApp = savePersisted(DefaultPersisted)
    /\ SessionInit
    /\ args = <<>>
    /\ ret = <<>>
    /\ lastOp = Op("init", "", "")

NextSession ==
    \/ StartSession
    \/ SelectPlan
    \/ endSession
    \/ SetForm
    \/ quickAddSet
    \/ SetPlannedForm
    \/ onLog
    \/ ToggleBaseline
    \/ clearAll

SpecSession == InitSession /\ [][NextSession]_vars

----------------------------------------------------------------------------
(* Properties *)

\* the sync status signal as the header renders it
Status ==
    IF ~configured THEN "offline"
    ELSE IF syncing THEN "syncing"
    ELSE IF syncError # "" THEN "error" ELSE "synced"

LogsOfKey(l, k) == SelectSeq(l, LAMBDA x : KeyOf(x) = k)

\* C1: a startup pull that completes and is applied leaves, as the ledger in
\* memory and in the wb_logs_v2 blob, exactly the rows the first select
\* returned when there is at least one, and leaves both as they were when
\* there is none; the rows held are those of the remote table.
C1_PullRemoteWins ==
    /\ [][lastOp'.op = "pullLogs" =>
            /\ KeysOf(pullRows') = DOMAIN remoteLogs
            /\ Len(pullRows') = Cardinality(DOMAIN remoteLogs)
            /\ \A i \in 1..Len(pullRows') :
                   pullRows'[i].sets = remoteLogs[KeyOf(pullRows'[i])]]_vars
    /\ [][(lastOp'.op = "pullDone" /\ lastOp'.arg = "applied") =>
            IF Len(pullRows) > 0
            THEN logs' = pullRows /\ lsV2' = <<pullRows>>
            ELSE logs' = logs /\ lsV2' = lsV2]_vars

\* C1 witness: on the used device the pull was applied with two rows, and the
\* log the device held before is gone.
C1_Witness ==
    /\ lastOp.op = "pullDone" /\ lastOp.arg = "applied"
    /\ Len(pullRows) = 2
    /\ logs = pullRows /\ lsV2 = <<pullRows>>
    /\ \A i \in 1..Len(logs) : logs[i] # HistoryLog

\* C2: the ledger holds at most one ExerciseLog per (date, exerciseId), and a
\* manual save or an auto-save for (D, E) leaves exactly one log for (D, E),
\* whose set list is the one that save wrote.
C2_PerDayUnique ==
    /\ [] UniqueKeys(logs)
    /\ [][(lastOp'.op = "saveToday" /\ lastOp'.arg # "rejected") =>
            LogsOfKey(logs', <<dateStr, lastOp'.ex>>) =
                <<ExerciseLog(dateStr, lastOp'.ex, SavedSets(lastOp'.ex, sets[lastOp'.ex]))>>]_vars
    /\ [][(lastOp'.op = "autoSave" /\ lastOp'.arg # "empty") =>
            \E c \in timers[lastOp'.ex] :
                LogsOfKey(logs', <<c.date, lastOp'.ex>>) =
                    <<ExerciseLog(c.date, lastOp'.ex, SanitizedSets(lastOp'.ex, c.sets))>>]_vars

\* C2 witness: a manual save replaced the log of the same date and exercise
\* with another set list.
C2_Witness ==
    /\ lastOp.op = "saveToday" /\ lastOp.arg = "replaced"
    /\ LogsOfKey(logs, <<dateStr, "wrist-curl">>) =
           <<ExerciseLog(dateStr, "wrist-curl", <<SetEntry(5, 5)>>)>>

\* C3: no step of a startup pull that ends in a failed select changes the
\* ledger or the rest overrides, in memory or in local storage: neither the
\* first select returning its rows, nor the failure of either select, nor
\* the return of a pull that was cancelled.
C3_PullFailureLeavesLocal ==
    [][(\/ lastOp'.op \in {"pullLogs", "pullFailed"}
        \/ (lastOp'.op = "pullDone" /\ lastOp'.arg = "cancelled")) =>
            UNCHANGED <<logs, lsV2, restOverrides, lsRest>>]_vars

\* C3 witness: the first select returned rows other than the local ledger,
\* the second select failed, and the local ledger is still the one of the
\* device.
C3_Witness ==
    /\ lastOp.op = "pullFailed" /\ lastOp.arg = "rest"
    /\ Len(pullRows) > 0
    /\ logs = <<HistoryLog>> /\ logs # pullRows
    /\ lsV2 = saveLogs(logs)
    /\ restOverrides = HistoryRest /\ lsRest = saveRestOverrides(restOverrides)
    /\ syncError = "select failed"

\* C4: once the effects of a render have run, the wb_logs_v2 blob is the full
\* ledger in memory; when the upsert of a ledger is issued, or skipped for
\* want of a remote store, the blob already holds that ledger, and the rows
\* sent are that ledger; an upsert returning, with or without an error,
\* leaves the blob alone.
C4_LocalFirst ==
    /\ []((phase # "new" /\ pending = <<>>) => lsV2 = saveLogs(logs))
    /\ [][lastOp'.op = "pushLogs" =>
            /\ lsV2 = saveLogs(logs) /\ UNCHANGED <<logs, lsV2>>
            /\ lastOp'.arg = "issued" =>
                   \E p \in pushLogsQ' : ~p.stale /\ p.rows = logs]_vars
    /\ [][lastOp'.op \in {"upsertOk", "upsertErr"} => UNCHANGED <<logs, lsV2>>]_vars

\* C4 witness: the upsert of a ledger with a log the remote table does not
\* hold was just issued, and the blob holds that ledger.
C4_Witness ==
    /\ lastOp.op = "pushLogs" /\ lastOp.arg = "issued"
    /\ \E i \in 1..Len(logs) : KeyOf(logs[i]) \notin DOMAIN remoteLogs
    /\ lsV2 = saveLogs(logs)
    /\ \E p \in pushLogsQ : ~p.stale /\ p.rows = logs

\* C5: a save of a working set that is empty, or has a set whose reps are not
\* above 0 or whose weight is negative, leaves the ledger as it was, whether
\* the save is the manual one or the debounced auto-save.
C5_InvalidNeverCommitted ==
    [][(lastOp'.op \in {"saveToday", "autoSave"} /\ ~ValidSets(sets[lastOp'.ex])) =>
            logs' = logs]_vars

\* C6: while a remote call of a configured device is in flight (a select of
\* the startup pull, a ledger upsert, an override delete or insert), the
\* status signal is "syncing".
C6_SyncingWhileInFlight ==
    (phase = "live" /\ configured /\
     (pullPc \in {"logsSel", "restSel"} \/ pushLogsQ # {} \/ pushRestQ # {})) =>
        Status = "syncing"

\* C7: the return of a pull whose effect was cleaned up, and the return of a
\* push whose effect run was superseded by a later run, change neither the
\* ledger, nor the rest overrides, nor the syncing flag, nor the error
\* message.
C7_TornDownAppliesNothing ==
    [][(\/ lastOp'.age = "stale"
        \/ (cancelled /\ lastOp'.op \in {"pullLogs", "pullFailed", "pullDone"})) =>
            UNCHANGED <<logs, restOverrides, syncing, syncError>>]_vars

\* the steps that replace the working set of a card
EditOps == {"setSetField", "addSet", "removeSet", "prefillLast"}

\* C8: a card has at most one auto-save timeout pending, the one its ref
\* holds, and that timeout carries the card's current working set and the
\* current date; an edit leaves exactly the timeout of the edited working set
\* pending, whatever was pending before; the auto-save that fires writes the
\* working set as it is when it fires.
C8_Debounce ==
    /\ [](\A e \in DOMAIN sets :
            /\ Cardinality(timers[e]) <= 1
            /\ \A c \in timers[e] :
                   autoSaveRef[e] = <<c>> /\ c.sets = sets[e] /\ c.date = dateStr)
    /\ [][lastOp'.op \in EditOps =>
            timers'[lastOp'.ex] = {Closure(sets'[lastOp'.ex], logs, dateStr)}]_vars
    /\ [][(lastOp'.op = "autoSave" /\ lastOp'.arg # "empty") =>
            LogsOfKey(logs', <<dateStr, lastOp'.ex>>) =
                <<ExerciseLog(dateStr, lastOp'.ex,
                              SanitizedSets(lastOp'.ex, sets[lastOp'.ex]))>>]_vars

\* C8 witness: after two edits in a row (the weight 1.25 kg, then the reps 0)
\* the auto-save fired once and wrote the working set of the second edit.
C8_Witness ==
    /\ lastOp.op = "autoSave" /\ lastOp.ex = "wrist-curl"
    /\ userOps = 2
    /\ logs = <<ExerciseLog(Today, "wrist-curl", <<SetEntry(0, 6)>>)>>

\* C9: a successful delete of an override push empties the client's rows of
\* wb_rest_overrides and leaves the local overrides alone; a failed insert
\* leaves the remote rows, empty after that delete, and the local overrides
\* as they are; the remote rows, once empty, stay empty until an insert
\* succeeds.
C9_DeleteThenInsert ==
    /\ [][lastOp'.op = "restDeleteOk" =>
            remoteRest' = EmptyTable /\ UNCHANGED <<restOverrides, lsRest>>]_vars
    /\ [][lastOp'.op = "restInsertErr" =>
            UNCHANGED <<remoteRest, restOverrides, lsRest>>]_vars
    /\ [][(remoteRest = EmptyTable /\ remoteRest' # EmptyTable) =>
            lastOp'.op = "restInsertOk"]_vars

\* C9 witness: the delete succeeded on a table that had rows, the insert
\* failed, no push is left in flight; the remote table is empty and the
\* local overrides are there, in memory and in local storage.
C9_Witness ==
    /\ lastOp.op = "restInsertErr" /\ lastOp.arg = "deleted"
    /\ pushRestQ = {}
    /\ remoteRest = EmptyTable
    /\ DOMAIN restOverrides # {}
    /\ lsRest = saveRestOverrides(restOverrides)

\* C10: when a remote call of a mounted component returns with a failure (a
\* select of a pull not cancelled, a ledger upsert, an override delete or
\* insert, a Clear-All delete), the error message is set.
C10_FailureVisible ==
    [][(phase = "live" /\ ~(cancelled /\ lastOp'.op = "pullFailed") /\
        lastOp'.op \in {"pullFailed", "upsertErr", "restDeleteErr", "restInsertErr",
                        "clearDeleteErr"}) =>
            syncError' # ""]_vars

\* C11: on a device without a remote store no select is in flight, no upsert,
\* no override push and no Clear-All delete is in flight, the remote tables
\* have no row, no client id is stored and the status is "offline"; no step
\* changes any of these.
C11_NoRemoteWhenUnconfigured ==
    /\ [](~configured =>
            /\ pullPc = "none" /\ pushLogsQ = {} /\ pushRestQ = {} /\ clearQ = 0
            /\ remoteLogs = EmptyTable /\ remoteRest = EmptyTable
            /\ lsClientId = "" /\ ~syncing /\ Status = "offline")
    /\ [][~configured =>
            UNCHANGED <<pullPc, pushLogsQ, pushRestQ, clearQ, remoteLogs, remoteRest,
                        lsClientId>>]_vars

\* C11 witness: without a remote store, after mount, a rest edit and Clear All
\* Logs, the effect of the emptied ledger has run and skipped its push.
C11_Witness ==
    /\ ~configured
    /\ lastOp.op = "pushLogs" /\ lastOp.arg = "offline"
    /\ userOps = 2
    /\ logs = <<>> /\ lsV2 = saveLogs(<<>>)
    /\ "wrist-curl" \in DOMAIN restOverrides /\ restOverrides["wrist-curl"] = RestMin
    /\ pushLogsQ = {} /\ pushRestQ = {} /\ clearQ = 0 /\ pullPc = "none"

\* C12: when only the legacy blob is stored, loadLogs returns one ExerciseLog
\* per legacy log, same date and exercise, in the same order, each with the
\* single set {reps 0, weight W} (W the legacy weight, 0 when it has none),
\* writes the result under the v2 key and leaves the legacy blob untouched.
C12_LegacyMigration ==
    [][(lastOp'.op = "loadLogs" /\ lsV2 = <<>> /\ Len(lsV1) = 1) =>
         LET old == lsV1[1]
         IN  /\ ~ret'.threw
             /\ Len(ret'.val) = Len(old)
             /\ \A i \in 1..Len(old) :
                    /\ ret'.val[i].date = old[i].date
                    /\ ret'.val[i].ex = old[i].ex
                    /\ ret'.val[i].sets =
                           <<SetEntry(0, IF old[i].weight = Null THEN 0 ELSE old[i].weight)>>
             /\ lsV2' = <<ret'.val>>
             /\ lsV1' = lsV1]_vars

C12_Witness ==
    /\ lastOp.op = "loadLogs"
    /\ lastOp.arg = "migrated"
    /\ args.v2 = <<>>
    /\ Len(ret.val) = MaxLegacy
    /\ ret.val[1] = ExerciseLog(1, "wrist-curl", <<SetEntry(0, 5)>>)
    /\ ret.val[2] = ExerciseLog(2, "front-squat", <<SetEntry(0, 0)>>)
    /\ lsV2 = <<ret.val>>
    /\ lsV1 = args.v1

\* C13: two consecutive loadLogs calls on a store that held only the legacy
\* blob return the same ledger, and the second one changes nothing; once the
\* v2 item is there (an empty ledger after Clear All Logs included) loadLogs
\* returns the ledger it holds, reads the v2 key only and writes nothing.
C13_MigrationIdempotentOneWay ==
    /\ [][(lastOp.op = "loadLogs" /\ lastOp'.op = "loadLogs"
           /\ args.v2 = <<>> /\ Len(args.v1) = 1) =>
             /\ ~ret'.threw
             /\ ret'.val = ret.val
             /\ lsV2' = lsV2
             /\ lsV1' = lsV1]_vars
    /\ [][(lastOp'.op = "loadLogs" /\ lsV2 # <<>>) =>
             /\ Len(lsV2) = 1 => ret'.val = lsV2[1]
             /\ ret'.reads = {"wb_logs_v2"}
             /\ ret'.path # "migrated"
             /\ lsV2' = lsV2
             /\ lsV1' = lsV1]_vars

\* a load that migrated two legacy logs is followed by a load of the v2 item
C13_Witness ==
    /\ lastOp.op = "loadLogs"
    /\ lastOp.arg = "v2"
    /\ lastOp.age = "migrated"
    /\ Len(ret.val) = MaxLegacy
    /\ Len(lsV1) = 1
    /\ ret.val = [i \in 1..Len(lsV1[1]) |-> MigrateLog(lsV1[1][i])]

\* C14: no load function lets an exception escape, and on an absent or
\* unparseable item each returns its default: loadLogs the empty ledger (v2
\* unparseable, or v2 absent and v1 absent or unparseable), loadRestOverrides
\* the empty map, loadPersisted the seeded goals with bodyweight 75.
C14_LoadNeverRaises ==
    /\ [][lastOp'.op \in {"loadLogs", "loadRestOverrides", "loadPersisted"} =>
            ~ret'.threw]_vars
    /\ [][(lastOp'.op = "loadLogs"
           /\ (Len(lsV2) = 2 \/ (lsV2 = <<>> /\ Len(lsV1) # 1))) =>
            ret'.val = <<>>]_vars
    /\ [][(lastOp'.op = "loadRestOverrides" /\ Len(lsRest) # 1) =>
            ret'.val = EmptyTable]_vars
    /\ [][(lastOp'.op = "loadPersisted" /\ Len(lsApp) # 1) =>
            /\ ret'.val.sessions = <<>>
            /\ ret'.val.sets = <<>>
            /\ ret'.val.goals = DEFAULT_GOALS
            /\ ret'.val.bodyweightKg = 75]_vars

\* loadPersisted returned the default on an unparseable item
C14_Witness ==
    /\ lastOp.op = "loadPersisted"
    /\ Len(args.raw) = 2
    /\ ~ret.threw
    /\ ret.val.goals = DEFAULT_GOALS
    /\ ret.val.bodyweightKg = DefaultBodyweightKg

\* C15: getLastLogForExercise returns a log of the exercise asked for whose
\* date is the greatest date not after the cutoff (of all dates without a
\* cutoff), returns undefined exactly when no log of the exercise is within
\* the cutoff, and leaves the ledger it was given as it was.
C15_MostRecentLog ==
    lastOp.op = "getLastLogForExercise" =>
        LET l == args.logs
            within(x) == x.ex = args.exerciseId
                         /\ (args.beforeDate = NoDate \/ x.date <= args.beforeDate)
        IN  /\ ret.logs = l
            /\ (ret.val = <<>>) <=> ~(\E i \in 1..Len(l) : within(l[i]))
            /\ ret.val # <<>> =>
                   /\ \E i \in 1..Len(l) : l[i] = ret.val[1]
                   /\ within(ret.val[1])
                   /\ \A j \in 1..Len(l) : within(l[j]) => l[j].date <= ret.val[1].date
            /\ getLastLogForExercise(args.exerciseId, l, args.beforeDate) \in
                   {o.val : o \in getLastLogOutcomes(args.exerciseId, l, args.beforeDate)}

\* logs of dates 1, 2 and 3, the cutoff on date 2: the log of date 2
C15_Witness ==
    /\ lastOp.op = "getLastLogForExercise"
    /\ args.exerciseId = "wrist-curl"
    /\ args.beforeDate = 2
    /\ Len(args.logs) = 3
    /\ {args.logs[i].date : i \in 1..3} = {1, 2, 3}
    /\ \A i \in 1..3 : args.logs[i].ex = "wrist-curl"
    /\ ret.val # <<>>
    /\ ret.val[1].date = 2

\* C17: suggestNext gives no weight and 8 reps on an empty history; on the
\* last set of the history (weight w, reps r, RIR p) and the increment i of
\* the exercise it gives (w + i, r) for p >= 3 and (w, r + 1) for p <= 1 and
\* for p = 2 alike; the result is the one that set alone would give.
C17_SuggestNext ==
    lastOp.op = "suggestNext" =>
        LET h == args.lastSets
            i == IF args.ex.defaultIncrement = 0 THEN DEFAULT_INCREMENT
                 ELSE args.ex.defaultIncrement
        IN  /\ h = <<>> => ret.nextWeight = <<>> /\ ret.nextReps = 8
            /\ h # <<>> =>
                 LET s == h[Len(h)]
                 IN  /\ s.rir >= 3 => ret.nextWeight = <<s.weight + i>> /\ ret.nextReps = s.reps
                     /\ s.rir <= 1 => ret.nextWeight = <<s.weight>> /\ ret.nextReps = s.reps + 1
                     /\ s.rir = 2 => ret.nextWeight = <<s.weight>> /\ ret.nextReps = s.reps + 1
                     /\ ret = suggestNext(args.ex, <<s>>)

\* 60 kg for 8 reps at RIR 3 after a different set, increment 2.5 kg: 62.5 kg for 8
C17_Witness ==
    /\ lastOp.op = "suggestNext"
    /\ args.ex.id = "bench"
    /\ Len(args.lastSets) = 2
    /\ args.lastSets[1] = SessionSet(1, 1, "bench", 0, 5, 1, 1)
    /\ args.lastSets[2] = SessionSet(1, 1, "bench", 120, 8, 3, 1)
    /\ ret.nextWeight = <<125>>
    /\ ret.nextReps = 8

\* the text has no multiplication glyph, and all its digits lie in the RIR
\* annotation
OnlyRirDigits(s) ==
    /\ rirSpan(s) # <<>>
    /\ \A k \in 1..Len(s) :
          /\ IsDigit(s[k]) => rirSpan(s)[1] <= k /\ k <= rirSpan(s)[2]
          /\ Fold(s[k]) \notin {"x", "times"}

\* C18: parseScheme on a text without a multiplication glyph whose only
\* digits are those of the RIR annotation (as "AMRAP to RIR2") gives sets
\* null and the repText "AMRAP", and the RIR annotation as rirText.
C18_AmrapRepText ==
    (lastOp.op = "parseScheme" /\ OnlyRirDigits(args.s)) =>
        /\ ret.sets = <<>>
        /\ ret.repText = AMRAP
        /\ ret.rirText = <<RirPrefix \o rir(args.s)[1]>>

\* C19: epleyE1RM(load, reps) is the load itself for reps <= 1 (0 and
\* negative reps included) and load * (1 + reps / 30) for reps >= 2, that is
\* 30 times the result is load * (30 + reps); the result is given in
\* thirtieths.
C19_EstimatedMax ==
    lastOp.op = "epleyE1RM" =>
        /\ args.reps <= 1 => ret = 30 * args.loadKg
        /\ args.reps >= 2 => ret = args.loadKg * (30 + args.reps)

\* 100 kg for 10 reps: 133.33 kg; and the call before it in reps, 100 kg once
C19_Witness ==
    /\ lastOp.op = "epleyE1RM"
    /\ args.loadKg = 100
    /\ args.reps = 10
    /\ ret = 4000
    /\ epleyE1RM(100, 1) = 3000

\* C20: effectiveLoadKg returns the external load as it is for an exercise
\* that is not a bodyweight movement, whatever the bodyweight, and
\* bodyweight * loadFactor + external load for a bodyweight movement, the
\* factor being 1.0 when the exercise has none and the external load being
\* taken with its sign; results in hundredths of a kilogram.
C20_EffectiveLoad ==
    lastOp.op = "effectiveLoadKg" =>
        LET f == IF args.ex.loadFactor = <<>> THEN 100 ELSE args.ex.loadFactor[1]
        IN  /\ ~args.ex.isBodyweight => ret = 100 * args.externalLoadKg
            /\ args.ex.isBodyweight =>
                   ret = args.bodyweightKg * f + 100 * args.externalLoadKg

\* a push-up (factor 0.65) at 80 kg bodyweight with 20 kg of assistance: 32 kg
C20_Witness ==
    /\ lastOp.op = "effectiveLoadKg"
    /\ args.ex = ExerciseOf("pushup")
    /\ args.bodyweightKg = 80
    /\ args.externalLoadKg = -20
    /\ ret = 3200
    /\ effectiveLoadKg(Exercise("custom", TRUE, DEFAULT_INCREMENT, <<>>), 75, 0) = 7500

\* the set of a list with the latest timestamp
LatestSet(list) ==
    list[CHOOSE i \in 1..Len(list) : \A j \in 1..Len(list) : list[j].timestamp <= list[i].timestamp]

\* the quick logger shows the suggestion the latest set of the selected
\* exercise gives
QuickSuggestionFromLatest ==
    (PlannedLabel(data, currentSessionId) = "" /\ lastSetsByEx(form.exerciseId) # <<>>) =>
        suggestion = suggestNext(currentExercise, <<LatestSet(lastSetsByEx(form.exerciseId))>>)

\* the prefill that has just run set, for each planned exercise with logged
\* sets, the weight and reps the latest set gives
PrefillFromLatest ==
    (lastOp.arg = "prefill" /\ ~data.baselineMode) =>
        \A e \in DOMAIN forms :
            LET hist == SelectSeq(data.sets, LAMBDA s : s.exerciseId = e)
                sugg == suggestNext(ExerciseOf(e), <<LatestSet(hist)>>)
            IN  hist # <<>> =>
                    forms[e].weight = sugg.nextWeight[1] /\ forms[e].reps = sugg.nextReps

\* C16: after any sequence of logged sets, the advice of each caller of
\* suggestNext, the quick logger's suggestion and the prefill of the planned
\* exercises, is the one computed from the set of that exercise with the
\* latest timestamp.
C16_AdviceFromLatestSet == QuickSuggestionFromLatest /\ PrefillFromLatest

\* C29: after any sequence of start session, end session, log set (quick
\* logger or planned exercise) and reset-all, every SetEntry of the ledger
\* has the sessionId of a Session that is in the ledger.
C29_SetsReferToSessions ==
    \A i \in 1..Len(data.sets) :
        \E j \in 1..Len(data.sessions) : data.sessions[j].id = data.sets[i].sessionId

\* C30: logging a set from the quick logger without a current session
\* creates one session and records exactly one new set, whose sessionId is
\* the id of that new session.
C30_QuickLogIntoNewSession ==
    [][(currentSessionId = NoSession /\ lastOp'.op = "addSet") =>
          /\ Len(data'.sessions) = Len(data.sessions) + 1
          /\ data'.sets # <<>>
          /\ Tail(data'.sets) = data.sets
          /\ data'.sets[1].sessionId = data'.sessions[1].id
          /\ data'.sessions[1].id = currentSessionId']_vars

\* C21: in every reachable state every value of the rest-override mapping,
\* in memory and as persisted in local storage, is an integer in [10, 999],
\* whatever rest edits and startup pulls have happened.
C21_RestInRange ==
    LET stored == loadRestOverrides(lsRest).val
    IN  /\ \A e \in DOMAIN restOverrides : restOverrides[e] \in RestMin..RestMax
        /\ \A e \in DOMAIN stored : stored[e] \in RestMin..RestMax

\* the pull has replaced the overrides by the remote rows, the user typed 5
\* seconds on the card, which was saved, and then 1000, not saved yet
C21_Witness ==
    /\ pullPc = "done"
    /\ "front-squat" \in DOMAIN restOverrides
    /\ restOverrides["front-squat"] = HistoryRemoteRest["front-squat"]
    /\ lastOp.op = "updateRest"
    /\ restOverrides[lastOp.ex] = RestMax
    /\ loadRestOverrides(lsRest).val[lastOp.ex] = RestMin

\* C22: the client identity is created at most once per installation: a
\* sync operation that finds no stored identity generates and stores one,
\* no step overwrites a stored identity, and every pull, ledger push,
\* override push and Clear-All delete in flight was issued with the stored
\* identity.
C22_IdentityOnce ==
    [][/\ lsClientId # "" => lsClientId' = lsClientId
       /\ lsClientId' # lsClientId =>
              /\ configured
              /\ lastOp'.op \in {"mount", "pushLogs", "pushRest"}
              /\ lsClientId' = NewClientId
       /\ (configured /\ lastOp'.op \in {"mount", "pushLogs", "pushRest"}) => lsClientId' # ""
       /\ \A p \in pushLogsQ' \cup pushRestQ' : p.client_id = lsClientId'
       /\ (pullPc' \in {"logsSel", "restSel"} \/ clearQ' > 0) => lsClientId' # ""]_vars

\* a fresh installation: the pull generated the identity, and a ledger push,
\* an override push and a Clear-All delete are in flight with it
C22_Witness ==
    /\ lsClientId = NewClientId
    /\ pullPc = "done"
    /\ clearQ > 0
    /\ \E p \in pushLogsQ : p.client_id = NewClientId
    /\ \E p \in pushRestQ : p.client_id = NewClientId

\* C23: a debounced auto-commit of a card for (date D, exercise E) changes
\* only the log for (D, E): every log for another (date, exerciseId) that
\* was in the ledger just before the commit fires is in the ledger,
\* unchanged, afterwards, whatever the order in which the timers of the
\* cards of the day fire.
C23_AutoCommitKeepsOtherLogs ==
    [][(lastOp'.op = "autoSave" /\ lastOp'.arg # "empty") =>
          \E d \in Dates :
             \A i \in 1..Len(logs) :
                 KeyOf(logs[i]) # <<d, lastOp'.ex>> =>
                     \E j \in 1..Len(logs') : logs'[j] = logs[i]]_vars

\* C25: a log is added to or rewritten in the ledger only after the user
\* edited the working set of its exercise or pressed Save for it; displaying
\* the cards does not by itself create a log: as long as no user event has
\* happened, every log of the ledger was in it before the step.
C25_NoPhantomLogs ==
    [][userOps' = 0 =>
          \A j \in 1..Len(logs') : \E i \in 1..Len(logs) : logs[i] = logs'[j]]_vars

\* C26: a log committed locally while the startup pull is in flight (a log
\* of today: the ledger of an earlier use has none) is still in the local
\* ledger, with the committed set list, when the pull has completed, whether
\* it returned rows, returned none or failed.
C26_CommitSurvivesPull ==
    [][(pullPc # "done" /\ pullPc' = "done") =>
          \A i \in 1..Len(logs) :
              logs[i].date = Today => \E j \in 1..Len(logs') : logs'[j] = logs[i]]_vars

\* C27: when ledger pushes overlap and their upserts, all of which succeed,
\* reach the remote in any order, then once the pull is over, no effect is
\* waiting and no push is in flight, the remote row of every (date,
\* exerciseId) of the local ledger holds the set list of the local log.
C27_RemoteLedgerConverges ==
    (pullPc = "done" /\ pending = <<>> /\ pushLogsQ = {} /\ syncError = "") =>
        \A i \in 1..Len(logs) :
            /\ KeyOf(logs[i]) \in DOMAIN remoteLogs
            /\ remoteLogs[KeyOf(logs[i])] = logs[i].sets

\* C28: when override pushes overlap and their delete and insert steps
\* interleave in any order, then once the pull is over, no effect is
\* waiting, no push is in flight and no error is shown, the remote override
\* rows of the client are exactly the local overrides: one row per
\* exerciseId with the local seconds, and no stale row.
C28_RemoteRestConverges ==
    (pullPc = "done" /\ pending = <<>> /\ pushRestQ = {} /\ syncError = "") =>
        remoteRest = restOverrides

\* C24: when the user makes no edit, save, date change or day change and
\* every remote call returns, the system eventually reaches a state with no
\* auto-commit timer pending and no effect left to run, and stays there: the
\* ledger is not rewritten and no push is issued any more.
C24_Quiescence ==
    <>[](/\ \A e \in DOMAIN timers : timers[e] = {}
         /\ pending = <<>>
         /\ pushLogsQ = {})

============================================================================
